---------------------------- MODULE Spec2Model ----------------------------
(***************************************************************************)
(* Model of the fhirDemo Patient facade.                                   *)
(*                                                                         *)
(* Two servers live in the repository:                                     *)
(*   - the Go proxy (main.go, internal/api, internal/store): request       *)
(*     handlers running as goroutines over a shared in-memory store, an    *)
(*     atomic id counter and a reader/writer lock;                         *)
(*   - the Java service (PatientValidationService.processCreatePatient):   *)
(*     a stateless validate-and-echo POST.                                 *)
(* Spec drives the Go handlers, SpecJava drives the Java service.          *)
(***************************************************************************)
EXTENDS Integers, Sequences, FiniteSets, TLC

(***************************************************************************)
(* Bounds of the model.                                                    *)
(***************************************************************************)
NumProcs == 2
MaxCreates == 2
MaxIssues == 3
MaxBufs == 3
MaxLen == 3

Procs == 1..NumProcs

(***************************************************************************)
(* JSON texts.  A text is syntactically broken, or an object given by its  *)
(* members in the order they are written, or the literal null, or another  *)
(* well-formed text that is no object (an array, a string, a number).      *)
(* Values are tagged with their JSON type; the members of a nested object  *)
(* are kept as a map.                                                      *)
(***************************************************************************)
Json(ms) == [syntax |-> TRUE, top |-> "object", members |-> ms]
MalformedJson == [syntax |-> FALSE, top |-> "none", members |-> <<>>]
JsonNull == [syntax |-> TRUE, top |-> "null", members |-> <<>>]
JsonArray == [syntax |-> TRUE, top |-> "array", members |-> <<>>]
EmptyBody == Json(<<>>)

\* a string that is not the text of a JSON object ("null" is the JSON null)
S(s) == [t |-> "string", s |-> s,
         text |-> IF s = "null" THEN JsonNull ELSE MalformedJson]
\* a string whose characters are the JSON text j
T(j) == [t |-> "string", s |-> "{json}", text |-> j]
\* a number; json.Unmarshal decodes it as a float64 (whole numbers here)
N(n) == [t |-> "number", n |-> n]
B(b) == [t |-> "bool", b |-> b]
O(m) == [t |-> "object", m |-> m]
L(xs) == [t |-> "array", xs |-> xs]
EmptyMap == [k \in {} |-> S("")]

\* Keys in the byte order json.Marshal writes the keys of a map.
KeyOrder ==
    <<"active", "address", "area", "avatarBase64", "avatarUrl", "birthDate",
      "city", "code", "communication", "contact", "contentType", "country",
      "createdOn", "data", "dateOfBirth", "deceasedBoolean", "details",
      "email", "emergencyContactEmail", "emergencyContactFirstName",
      "emergencyContactFirstNameLocal", "emergencyContactLastName",
      "emergencyContactLastNameLocal", "emergencyContactName",
      "emergencyContactPhoneNumber", "emergencyContactRelationship",
      "entry", "familyName", "fileStatus", "firstName", "fullName", "gender",
      "gender_text", "generalPractitioner", "givenName", "hospitalId", "id",
      "idNumber", "idType", "identifier", "imageBase64", "imageContentType",
      "imageData", "imageUrl", "isDeceased", "language", "lastName",
      "legacyMRN", "link", "linkedParentUpi", "managingOrganization",
      "maritalStatus", "maritialStatus", "medicalRecordNumber", "middle",
      "middleName", "mobileNumber", "modifiedOn", "name", "patientId",
      "patientNumber", "phoneNumber", "photo", "photoBase64",
      "photoContentType", "photoCreatedOn", "photoCreation", "photoTitle",
      "photoUrl", "pictureUrl", "primaryHealthcareCenter",
      "primaryHealthcarePhysician", "registeredAt", "resourceType",
      "status", "street", "telecom", "thirdName", "total", "type",
      "unmapped", "upi",
      "zipCode">>

\* json.Unmarshal(data, &map): the decoded object, a later duplicate key wins;
\* the literal null leaves the map nil (it reads as the empty map)
Unmarshal(data) ==
    LET ms == data.members
        keys == {ms[i][1] : i \in 1..Len(ms)}
        last(k) == CHOOSE i \in 1..Len(ms) :
                      /\ ms[i][1] = k
                      /\ \A j \in 1..Len(ms) : ms[j][1] = k => j <= i
    IN [k \in keys |-> ms[last(k)][2]]

\* json.Unmarshal(data, &map) returns an error: the text is broken or it is a
\* well-formed text that is neither an object nor null
UnmarshalFailsMut(data) == ~data.syntax
UnmarshalFails(data) == ~data.syntax \/ data.top \notin {"object", "null"}

\* json.Marshal(map): members sorted by key.
Marshal(m) ==
    LET ks == SelectSeq(KeyOrder, LAMBDA k : k \in DOMAIN m)
    IN Json([i \in 1..Len(ks) |-> <<ks[i], m[ks[i]]>>])

\* the string value of a key of a decoded object, "" when the key is absent or
\* holds no string
Field(m, k) == IF k \in DOMAIN m /\ m[k].t = "string" THEN m[k].s ELSE ""

\* resource["id"] = id
SetIdMut(m, id) ==
    [k \in DOMAIN m \cup {"id"} |-> IF k \in DOMAIN m THEN m[k] ELSE S(id)]
SetId(m, id) == [k \in DOMAIN m \cup {"id"} |-> IF k = "id" THEN S(id) ELSE m[k]]

\* strings.EqualFold(s, "Patient") over the spellings the inputs use
EqualFoldPatient(s) == s \in {"Patient", "patient", "PATIENT"}

\* looksLikePatient / looksLikePatientQuick
looksLikePatient(data) ==
    /\ data.syntax
    /\ EqualFoldPatient(Field(Unmarshal(data), "resourceType"))

\* the R4 administrative-gender codes and the resource names the inputs use
GenderCodes == {"male", "female", "other", "unknown"}
R4ResourceTypes == {"Patient", "Observation", "Practitioner"}

\* the elements of an R4 Patient, by the JSON type jsonformat expects
PatientStrings == {"resourceType", "id", "gender", "birthDate", "language"}
PatientBooleans == {"active", "deceasedBoolean"}
PatientObjects == {"maritalStatus", "managingOrganization"}
PatientArrays == {"identifier", "name", "telecom", "address", "communication",
                  "generalPractitioner", "link", "contact", "photo"}

\* the FHIR id, date and dateTime formats over the strings the inputs use
InvalidIds == {"", "a b"}
ValidDates == {"1990-12-31", "1990"}
ValidDateTimes == ValidDates \cup {"2020-01-02T03:04:05Z"}

\* a photo (Attachment) whose creation, when present, is a dateTime
AttachmentOk(v) ==
    /\ v.t = "object"
    /\ "creation" \in DOMAIN v.m =>
          (v.m["creation"].t = "string" /\ v.m["creation"].s \in ValidDateTimes)

\* jsonformat's checks on a decoded Patient
PatientOk(m) ==
    /\ DOMAIN m \subseteq PatientStrings \cup PatientBooleans
                              \cup PatientObjects \cup PatientArrays
    /\ \A k \in DOMAIN m :
          /\ k \in PatientStrings => m[k].t = "string"
          /\ k \in PatientBooleans => m[k].t = "bool"
          /\ k \in PatientObjects => m[k].t = "object"
          /\ k \in PatientArrays => m[k].t = "array"
    /\ "id" \in DOMAIN m => m["id"].s \notin InvalidIds
    /\ "gender" \in DOMAIN m => m["gender"].s \in GenderCodes
    /\ "birthDate" \in DOMAIN m => m["birthDate"].s \in ValidDates
    /\ "photo" \in DOMAIN m =>
          \A i \in 1..Len(m["photo"].xs) : AttachmentOk(m["photo"].xs[i])

\* fhir.ValidatePatientR4 / validatePatientR4: TRUE when jsonformat's
\* Unmarshal returns no error.  It takes a resource of any R4 type; an
\* Observation needs its status and code.
ValidatePatientR4(data) ==
    /\ data.syntax
    /\ data.top = "object"
    /\ LET m == Unmarshal(data)
           rt == Field(m, "resourceType")
       IN /\ rt \in R4ResourceTypes
          /\ rt = "Patient" => PatientOk(m)
          /\ rt = "Observation" =>
                /\ {"status", "code"} \subseteq DOMAIN m
                /\ DOMAIN m \subseteq {"resourceType", "id", "status", "code"}
          /\ rt = "Practitioner" =>
                /\ DOMAIN m \subseteq {"resourceType", "id", "active", "gender"}
                /\ "gender" \in DOMAIN m =>
                      (m["gender"].t = "string" /\ m["gender"].s \in GenderCodes)

\* strconv.FormatInt(n, 10) for n >= 0
Digits == <<"0", "1", "2", "3", "4", "5", "6", "7", "8", "9">>
RECURSIVE FormatInt(_)
FormatInt(n) ==
    IF n < 10 THEN Digits[n + 1]
    ELSE FormatInt(n \div 10) \o Digits[(n % 10) + 1]

\* atomic.AddInt64(&nextID, delta): the new value of the counter
AddInt64Mut(n, delta) == n
AddInt64(n, delta) == n + delta

(***************************************************************************)
(* HTTP responses.                                                         *)
(***************************************************************************)
FhirJson == "application/fhir+json"
NoIssues == <<>>

Issue(sev, code, diag) == [severity |-> sev, code |-> code, diagnostics |-> diag]

Response(status, ctype, kind, issues, body, location, header, hissues) ==
    [status |-> status, ctype |-> ctype, kind |-> kind, issues |-> issues,
     body |-> body, location |-> location,
     outcomeHeader |-> header, headerIssues |-> hissues]

NoResponse == Response(0, "", "none", NoIssues, EmptyBody, "", FALSE, NoIssues)

\* writeSimpleOutcome(w, status, diagnostics)
writeSimpleOutcome(status, diagnostics) ==
    Response(status, FhirJson, "OperationOutcome",
             <<Issue("error", "invalid", diagnostics)>>,
             EmptyBody, "", FALSE, NoIssues)

\* a resource written as the body, with an optional Location header
writeResource(status, body, location) ==
    Response(status, FhirJson, "Patient", NoIssues, body, location, FALSE, NoIssues)

\* w.WriteHeader(http.StatusNoContent)
writeNoContent == Response(204, "", "none", NoIssues, EmptyBody, "", FALSE, NoIssues)

\* http.Error(w, text, status): a plain-text body
httpError(status) ==
    Response(status, "text/plain; charset=utf-8", "text", NoIssues, EmptyBody, "",
             FALSE, NoIssues)

\* a backend answer forwarded as it came
forwardBackend(status, body) ==
    Response(status, "application/json", "raw", NoIssues, body, "", FALSE, NoIssues)

(***************************************************************************)
(* Request inputs.                                                         *)
(***************************************************************************)
BodyDoe == Json(<< <<"resourceType", S("Patient")>>, <<"active", B(TRUE)>>,
                   <<"gender", S("male")>> >>)
BodyJane == Json(<< <<"resourceType", S("Patient")>>, <<"id", S("client-id")>>,
                    <<"gender", S("female")>> >>)
BodyBadGender == Json(<< <<"resourceType", S("Patient")>>, <<"active", B(TRUE)>>,
                         <<"gender", S("not-a-valid-code")>> >>)
BodyObservation == Json(<< <<"resourceType", S("Observation")>>,
                           <<"status", S("final")>> >>)

\* the documents POST and PUT requests carry
PostBodies == {BodyDoe, BodyJane, BodyBadGender, BodyObservation, MalformedJson}
PutBodies == {BodyDoe, BodyJane, BodyBadGender}

\* The bytes of a request body: a JSON document that takes docLen MiB, white
\* space inside it included, followed by padLen MiB of white space.
BodyLimit == 2
Sent(doc, docLen, padLen) == [doc |-> doc, docLen |-> docLen, padLen |-> padLen]
Oversized(raw) == raw.docLen + raw.padLen > BodyLimit

\* io.ReadAll(io.LimitReader(r.Body, 2<<20)): the first 2 MiB, without an
\* error.  White space cut or left after the document leaves the document; a
\* document cut before its end is no JSON.
ReadAllLimited(raw) ==
    IF raw.docLen <= BodyLimit THEN raw.doc ELSE MalformedJson

\* the request bodies: each document within the limit, and a valid Patient
\* that is padded beyond the limit or is itself longer than the limit
PostRequests ==
    {Sent(doc, 1, 0) : doc \in PostBodies}
    \cup {Sent(BodyDoe, 1, 2), Sent(BodyDoe, 3, 0)}
PutRequests ==
    {Sent(doc, 1, 0) : doc \in PutBodies}
    \cup {Sent(BodyDoe, 2, 1), Sent(BodyDoe, 3, 0)}

\* ids a request path can name: the first id POST hands out and one it never does
NeverCreated == "absent"
PathIds == {"1", NeverCreated}

\* A request as its handler holds it: the method, the path id, the bytes read
\* from the body, whether the body sent was longer than that, and (GET by id
\* of the api package) what the backend returned.
NoAnswer == [status |-> 0, body |-> EmptyBody, err |-> FALSE]
NoRequest == [method |-> "", id |-> "", body |-> EmptyBody, over |-> FALSE,
              answer |-> NoAnswer]
Request(method, id, body) ==
    [method |-> method, id |-> id, body |-> body, over |-> FALSE,
     answer |-> NoAnswer]
Received(method, id, raw) ==
    [method |-> method, id |-> id, body |-> ReadAllLimited(raw),
     over |-> Oversized(raw), answer |-> NoAnswer]
Fetched(id, a) ==
    [method |-> "GET", id |-> id, body |-> EmptyBody, over |-> FALSE,
     answer |-> a]

\* methods the routes have no case for
OtherMethods == {"PATCH"}

(***************************************************************************)
(* The store: a map from id to the JSON last written, guarded by a         *)
(* sync.RWMutex.                                                           *)
(***************************************************************************)
EmptyStore == [k \in {} |-> EmptyBody]
StorePut(s, id, v) == [k \in DOMAIN s \cup {id} |-> IF k = id THEN v ELSE s[k]]
StoreDelete(s, id) == [k \in DOMAIN s \ {id} |-> s[k]]

\* RWMutex.RLock succeeds when no writer holds the lock
CanRLock(rs, ws) == ws = {}
\* RWMutex.Lock succeeds when nobody holds the lock
CanLockMut(rs, ws) == ws = {}
CanLock(rs, ws) == ws = {} /\ rs = {}

(***************************************************************************)
(* The backend and the transformation of its answer (GET by id of the api  *)
(* package).                                                               *)
(***************************************************************************)
\* fhir.LooksLikePatient: jsonformat can unmarshal the bytes
LooksLikePatient(data) == ValidatePatientR4(data)

\* strings.TrimSpace, strings.ToLower and strings.ToUpper over the strings the
\* inputs use
TrimSpace(s) ==
    CASE s \in {" ", "  "} -> ""
      [] s = " - " -> "-"
      [] s = " null " -> "null"
      [] s = " Bo " -> "Bo"
      [] s = " F " -> "F"
      [] OTHER -> s
ToLower(s) ==
    CASE s = "M" -> "m"
      [] s = "F" -> "f"
      [] s = "O" -> "o"
      [] s = "U" -> "u"
      [] s = "Male" -> "male"
      [] s = "Female" -> "female"
      [] s = "Man" -> "man"
      [] s = "Active" -> "active"
      [] s = "ACTIVE" -> "active"
      [] s = "TRUE" -> "true"
      [] s = "Yes" -> "yes"
      [] s = "No" -> "no"
      [] s = "http://img/p.PNG" -> "http://img/p.png"
      [] OTHER -> s
ToUpper(s) ==
    CASE s = "us" -> "US"
      [] s = "lk" -> "LK"
      [] OTHER -> s

\* strings.EqualFold(s, "active")
EqualFoldActive(s) == ToLower(s) = "active"

\* A Go string is a sequence of bytes; the normalizers work on the bytes.
\* Bytes(s) is the byte sequence of a string the inputs use, Text is its inverse.
KnownStrings ==
    {"", "T", " ", "1990-12-31T10:00:00", "31/12/1990", "1990-12-31",
     "1990-12", "1990", "10:00", "10:00:00Z", "1990-12-31+05:30", "F",
     "M", "m", "f", "o", "u", "0",
     "1", "2", "3", "male", "female", "other",
     "unknown", "not-a-valid-code", "Male", "FEMALE", "Other", "man",
     "Mx", "femme", "Fem", "x", "nonbinary", "9",
     "om", "uf"}
Bytes(s) ==
    CASE s = "" -> <<>>
      [] s = "T" -> <<"T">>
      [] s = " " -> <<" ">>
      [] s = "1990-12-31T10:00:00" -> <<"1", "9", "9", "0", "-", "1", "2", "-", "3", "1", "T", "1", "0", ":", "0", "0", ":", "0", "0">>
      [] s = "31/12/1990" -> <<"3", "1", "/", "1", "2", "/", "1", "9", "9", "0">>
      [] s = "1990-12-31" -> <<"1", "9", "9", "0", "-", "1", "2", "-", "3", "1">>
      [] s = "1990-12" -> <<"1", "9", "9", "0", "-", "1", "2">>
      [] s = "1990" -> <<"1", "9", "9", "0">>
      [] s = "10:00" -> <<"1", "0", ":", "0", "0">>
      [] s = "10:00:00Z" -> <<"1", "0", ":", "0", "0", ":", "0", "0", "Z">>
      [] s = "1990-12-31+05:30" -> <<"1", "9", "9", "0", "-", "1", "2", "-", "3", "1", "+", "0", "5", ":", "3", "0">>
      [] s = "F" -> <<"F">>
      [] s = "M" -> <<"M">>
      [] s = "m" -> <<"m">>
      [] s = "f" -> <<"f">>
      [] s = "o" -> <<"o">>
      [] s = "u" -> <<"u">>
      [] s = "0" -> <<"0">>
      [] s = "1" -> <<"1">>
      [] s = "2" -> <<"2">>
      [] s = "3" -> <<"3">>
      [] s = "male" -> <<"m", "a", "l", "e">>
      [] s = "female" -> <<"f", "e", "m", "a", "l", "e">>
      [] s = "other" -> <<"o", "t", "h", "e", "r">>
      [] s = "unknown" -> <<"u", "n", "k", "n", "o", "w", "n">>
      [] s = "not-a-valid-code" -> <<"n", "o", "t", "-", "a", "-", "v", "a", "l", "i", "d", "-", "c", "o", "d", "e">>
      [] s = "Male" -> <<"M", "a", "l", "e">>
      [] s = "FEMALE" -> <<"F", "E", "M", "A", "L", "E">>
      [] s = "Other" -> <<"O", "t", "h", "e", "r">>
      [] s = "man" -> <<"m", "a", "n">>
      [] s = "Mx" -> <<"M", "x">>
      [] s = "femme" -> <<"f", "e", "m", "m", "e">>
      [] s = "Fem" -> <<"F", "e", "m">>
      [] s = "x" -> <<"x">>
      [] s = "nonbinary" -> <<"n", "o", "n", "b", "i", "n", "a", "r", "y">>
      [] s = "9" -> <<"9">>
      [] s = "om" -> <<"o", "m">>
      [] s = "uf" -> <<"u", "f">>
Text(bs) == CHOOSE s \in KnownStrings : Bytes(s) = bs

\* unicode.IsSpace over ASCII
IsSpace(c) == c \in {" ", "\t", "\n", "\r"}

\* strings.TrimSpace(s) on the bytes
RECURSIVE TrimLeft(_)
TrimLeft(s) == IF s # <<>> /\ IsSpace(Head(s)) THEN TrimLeft(Tail(s)) ELSE s
RECURSIVE TrimRight(_)
TrimRight(s) ==
    IF s # <<>> /\ IsSpace(s[Len(s)]) THEN TrimRight(SubSeq(s, 1, Len(s) - 1))
    ELSE s
TrimSpaceBytes(s) == TrimRight(TrimLeft(s))

\* strings.ToLower(s) on the bytes (ASCII letters)
UpperCase == <<"A", "B", "C", "D", "E", "F", "G", "H", "I", "J", "K", "L", "M",
               "N", "O", "P", "Q", "R", "S", "T", "U", "V", "W", "X", "Y", "Z">>
LowerCase == <<"a", "b", "c", "d", "e", "f", "g", "h", "i", "j", "k", "l", "m",
               "n", "o", "p", "q", "r", "s", "t", "u", "v", "w", "x", "y", "z">>
ToLowerByte(c) ==
    IF \E i \in 1..Len(UpperCase) : UpperCase[i] = c
    THEN LowerCase[CHOOSE i \in 1..Len(UpperCase) : UpperCase[i] = c]
    ELSE c
ToLowerBytes(s) == [i \in 1..Len(s) |-> ToLowerByte(s[i])]

\* strings.HasPrefix(s, prefix)
HasPrefix(s, prefix) ==
    Len(s) >= Len(prefix) /\ SubSeq(s, 1, Len(prefix)) = prefix

\* strings.IndexAny(s, chars): the 0-based index of the first byte of s that is
\* in chars, -1 when there is none
IndexAny(s, chars) ==
    IF \E i \in 1..Len(s) : s[i] \in chars
    THEN (CHOOSE i \in 1..Len(s) :
             /\ s[i] \in chars
             /\ \A j \in 1..(i - 1) : s[j] \notin chars) - 1
    ELSE -1

\* normalizeGender(g): the administrative-gender code for the bytes of g
normalizeGenderMut(g0) ==
    LET g == ToLowerBytes(TrimSpaceBytes(g0))
    IN CASE g \in {Bytes("m"), Bytes("male"), Bytes("1")} -> "male"
         [] g \in {Bytes("f"), Bytes("female"), Bytes("2")} -> "female"
         [] g \in {Bytes("other"), Bytes("o"), Bytes("3")} -> "other"
         [] OTHER -> "unknown"
normalizeGender(g0) ==
    LET g == ToLowerBytes(TrimSpaceBytes(g0))
    IN CASE g \in {Bytes("m"), Bytes("male"), Bytes("1")} -> "male"
         [] g \in {Bytes("f"), Bytes("female"), Bytes("2")} -> "female"
         [] g \in {Bytes("other"), Bytes("o"), Bytes("3")} -> "other"
         [] g \in {Bytes("unknown"), Bytes("u"), Bytes("0")} -> "unknown"
         [] OTHER -> IF HasPrefix(g, Bytes("m")) THEN "male"
                     ELSE IF HasPrefix(g, Bytes("f")) THEN "female"
                     ELSE "unknown"

\* normalizeDate(s): trim, cut before the first "T" or space that is not the
\* first byte, keep at most 10 bytes
normalizeDateMut(s0) ==
    IF Len(s0) >= 10 THEN SubSeq(s0, 1, 10) ELSE s0
normalizeDate(s0) ==
    LET s1 == TrimSpaceBytes(s0)
        i == IndexAny(s1, {"T", " "})
        s2 == IF i > 0 THEN SubSeq(s1, 1, i) ELSE s1
    IN IF Len(s2) >= 10 THEN SubSeq(s2, 1, 10) ELSE s2

\* guessImageContentType: by the lower-cased suffix of the URL
guessImageContentType(u) ==
    LET lower == ToLower(u)
    IN CASE lower \in {"http://img/p.jpg", "http://img/p.jpeg"} -> "image/jpeg"
         [] lower = "http://img/p.png" -> "image/png"
         [] lower = "http://img/p.gif" -> "image/gif"
         [] lower = "http://img/p.webp" -> "image/webp"
         [] OTHER -> ""

\* a string the helpers treat as no value
NoValue(s) == s = "" \/ s = "-" \/ s = "null"

\* str(m, keys...): the first key holding a usable string or a number
RECURSIVE str(_, _)
strMut(m, keys) ==
    IF keys = <<>> THEN ""
    ELSE LET k == Head(keys)
         IN IF k \in DOMAIN m /\ m[k].t = "string" /\ TrimSpace(m[k].s) # ""
            THEN m[k].s
            ELSE IF k \in DOMAIN m /\ m[k].t = "number" THEN FormatInt(m[k].n)
            ELSE str(m, Tail(keys))
str(m, keys) ==
    IF keys = <<>> THEN ""
    ELSE LET k == Head(keys)
         IN IF k \in DOMAIN m /\ m[k].t = "string"
                /\ TrimSpace(m[k].s) # "" /\ m[k].s # "-" /\ m[k].s # "null"
            THEN m[k].s
            ELSE IF k \in DOMAIN m /\ m[k].t = "number" THEN FormatInt(m[k].n)
            ELSE str(m, Tail(keys))

\* boolv(m, keys...): the value and whether one was found
RECURSIVE boolv(_, _)
boolv(m, keys) ==
    IF keys = <<>> THEN [v |-> FALSE, ok |-> FALSE]
    ELSE LET k == Head(keys)
             lower == IF k \in DOMAIN m /\ m[k].t = "string"
                      THEN ToLower(TrimSpace(m[k].s)) ELSE ""
         IN IF k \in DOMAIN m /\ m[k].t = "bool" THEN [v |-> m[k].b, ok |-> TRUE]
            ELSE IF lower \in {"true", "1", "yes"} THEN [v |-> TRUE, ok |-> TRUE]
            ELSE IF lower \in {"false", "0", "no"} THEN [v |-> FALSE, ok |-> TRUE]
            ELSE IF k \in DOMAIN m /\ m[k].t = "number"
                 THEN [v |-> m[k].n # 0, ok |-> TRUE]
            ELSE boolv(m, Tail(keys))

\* filterNonEmpty(vals...): the trimmed values that are a value
RECURSIVE filterNonEmpty(_)
filterNonEmpty(vals) ==
    IF vals = <<>> THEN <<>>
    ELSE LET v == TrimSpace(Head(vals))
         IN (IF NoValue(v) THEN <<>> ELSE <<v>>) \o filterNonEmpty(Tail(vals))

\* an entry of a map that is set only under a condition
SetIf(cond, k, v) == IF cond THEN k :> v ELSE EmptyMap
\* an element that is appended only under a condition
AppendIf(cond, v) == IF cond THEN <<v>> ELSE <<>>
\* []string as a JSON array
Strings(vals) == L([i \in 1..Len(vals) |-> S(vals[i])])

\* system/value pairs of identifier and telecom
Coded(system, value) == O(("system" :> S(system)) @@ ("value" :> S(value)))
Reference(ref) == O("reference" :> S(ref))

\* the name of the Patient
PatientName(payload) ==
    LET first == str(payload, <<"firstName", "givenName">>)
        middle == str(payload, <<"middleName", "middle">>)
        third == str(payload, <<"thirdName">>)
        family == str(payload, <<"lastName", "familyName">>)
        full == str(payload, <<"fullName">>)
        givens == filterNonEmpty(<<first, middle, third>>)
    IN SetIf(family # "", "family", S(family))
       @@ SetIf(Len(givens) > 0, "given", Strings(givens))
       @@ SetIf(full # "", "text", S(full))

\* the address of the Patient
PatientAddress(payload) ==
    LET lines == filterNonEmpty(<<str(payload, <<"street">>)>>)
        city == str(payload, <<"city">>)
        state == str(payload, <<"area">>)
        zip == str(payload, <<"zipCode">>)
        country == str(payload, <<"country">>)
    IN SetIf(Len(lines) > 0, "line", Strings(lines))
       @@ SetIf(city # "", "city", S(city))
       @@ SetIf(state # "", "state", S(state))
       @@ SetIf(zip # "", "postalCode", S(zip))
       @@ SetIf(country # "", "country", S(ToUpper(country)))

\* the emergency contact
PatientContact(payload) ==
    LET nameText == str(payload, <<"emergencyContactName">>)
        first == str(payload, <<"emergencyContactFirstName",
                                "emergencyContactFirstNameLocal">>)
        family == str(payload, <<"emergencyContactLastName",
                                 "emergencyContactLastNameLocal">>)
        givens == filterNonEmpty(<<first>>)
        name == SetIf(nameText # "", "text", S(nameText))
                @@ SetIf(Len(givens) > 0, "given", Strings(givens))
                @@ SetIf(family # "", "family", S(family))
        ph == str(payload, <<"emergencyContactPhoneNumber">>)
        em == str(payload, <<"emergencyContactEmail">>)
        telecom == AppendIf(ph # "", Coded("phone", ph))
                   \o AppendIf(em # "", Coded("email", em))
        relText == str(payload, <<"emergencyContactRelationship">>)
    IN SetIf(DOMAIN name # {}, "name", O(name))
       @@ SetIf(relText # "", "relationship", L(<<O("text" :> S(relText))>>))
       @@ SetIf(Len(telecom) > 0, "telecom", L(telecom))

\* the photo attachments: by URL, else by base64 data
PatientPhoto(payload) ==
    LET u == str(payload, <<"photoUrl", "avatarUrl", "imageUrl", "pictureUrl">>)
        b64 == str(payload, <<"photoBase64", "avatarBase64", "imageBase64",
                              "imageData", "photo">>)
        ct == str(payload, <<"photoContentType", "imageContentType",
                             "contentType">>)
        guessed == guessImageContentType(u)
        title == str(payload, <<"photoTitle">>)
        created == str(payload, <<"photoCreatedOn", "photoCreation",
                                  "createdOn", "modifiedOn">>)
        rest == SetIf(title # "", "title", S(title))
                @@ SetIf(created # "", "creation", S(created))
    IN IF u # ""
       THEN <<O(("url" :> S(u))
                @@ (IF ct # "" THEN "contentType" :> S(ct)
                    ELSE SetIf(guessed # "", "contentType", S(guessed)))
                @@ rest)>>
       ELSE IF b64 # ""
       THEN <<O(("data" :> S(b64)) @@ SetIf(ct # "", "contentType", S(ct))
                @@ rest)>>
       ELSE <<>>

\* the mapped Patient, before it is marshalled
MapPatient(payload, pathID) ==
    LET fileStatus == str(payload, <<"fileStatus">>)
        mrn == str(payload, <<"legacyMRN", "medicalRecordNumber", "patientNumber">>)
        upi == str(payload, <<"upi", "patientId", "id">>)
        idType == str(payload, <<"idType">>)
        idNum == str(payload, <<"idNumber">>)
        identifiers == AppendIf(mrn # "", Coded("urn:mrn", mrn))
                       \o AppendIf(upi # "", Coded("urn:upi", upi))
                       \o AppendIf(idType # "" /\ idNum # "",
                                   Coded("urn:" \o idType, idNum))
        name == PatientName(payload)
        gtxt == str(payload, <<"gender_text">>)
        g == str(payload, <<"gender">>)
        dob == str(payload, <<"dateOfBirth">>)
        ms == str(payload, <<"maritialStatus", "maritalStatus">>)
        lang == str(payload, <<"language">>)
        db == boolv(payload, <<"isDeceased">>)
        ph == str(payload, <<"mobileNumber", "phoneNumber">>)
        em == str(payload, <<"email">>)
        telecom == AppendIf(ph # "", Coded("phone", ph))
                   \o AppendIf(em # "", Coded("email", em))
        addr == PatientAddress(payload)
        orgID == str(payload, <<"registeredAt", "hospitalId">>)
        pid == str(payload, <<"primaryHealthcarePhysician">>)
        cid == str(payload, <<"primaryHealthcareCenter">>)
        gp == AppendIf(pid # "", Reference("Practitioner/" \o pid))
              \o AppendIf(cid # "", Reference("Organization/" \o cid))
        parent == str(payload, <<"linkedParentUpi">>)
        contact == PatientContact(payload)
        contacts == AppendIf(DOMAIN contact # {}, O(contact))
        attachments == PatientPhoto(payload)
    IN ("resourceType" :> S("Patient")) @@ ("id" :> S(pathID))
       @@ SetIf(fileStatus # "", "active", B(EqualFoldActive(fileStatus)))
       @@ SetIf(Len(identifiers) > 0, "identifier", L(identifiers))
       @@ SetIf(DOMAIN name # {}, "name", L(<<O(name)>>))
       @@ (IF gtxt # "" THEN "gender" :> S(normalizeGender(Bytes(gtxt)))
           ELSE SetIf(g # "", "gender", S(normalizeGender(Bytes(g)))))
       @@ SetIf(dob # "", "birthDate",
                S(Text(normalizeDate(Bytes(dob)))))
       @@ SetIf(ms # "", "maritalStatus", O("text" :> S(ms)))
       @@ SetIf(lang # "", "communication",
                L(<<O("language" :> O("text" :> S(lang)))>>))
       @@ SetIf(db.ok, "deceasedBoolean", B(db.v))
       @@ SetIf(Len(telecom) > 0, "telecom", L(telecom))
       @@ SetIf(DOMAIN addr # {}, "address", L(<<O(addr)>>))
       @@ SetIf(orgID # "", "managingOrganization",
                Reference("Organization/" \o orgID))
       @@ SetIf(Len(gp) > 0, "generalPractitioner", L(gp))
       @@ SetIf(parent # "", "link",
                L(<<O(("other" :> Reference("Patient/" \o parent))
                      @@ ("type" :> S("seealso")))>>))
       @@ SetIf(Len(contacts) > 0, "contact", L(contacts))
       @@ SetIf(Len(attachments) > 0, "photo", L(attachments))

\* the record the mapper reads: the `details` mapping, then the `data` string
\* or mapping, applied in that order over the top-level mapping
UnwrapMut(anyMap) ==
    IF "details" \in DOMAIN anyMap /\ anyMap["details"].t = "object"
    THEN anyMap["details"].m @@ anyMap
    ELSE IF "data" \in DOMAIN anyMap /\ anyMap["data"].t = "object"
    THEN anyMap["data"].m
    ELSE anyMap
Unwrap(anyMap) ==
    LET fromDetails ==
            IF "details" \in DOMAIN anyMap /\ anyMap["details"].t = "object"
            THEN anyMap["details"].m
            ELSE anyMap
    IN IF "data" \notin DOMAIN anyMap THEN fromDetails
       ELSE LET d == anyMap["data"]
            IN CASE d.t = "string" ->
                      IF UnmarshalFails(d.text) THEN fromDetails
                      ELSE Unmarshal(d.text)
                 [] d.t = "object" -> d.m
                 [] OTHER -> fromDetails

\* what TransformBackendToFHIRPatient returns: the bytes, or an error and what
\* raised it (json.Unmarshal or the google/fhir normalization)
Returned(bytes) == [err |-> FALSE, cause |-> "", out |-> bytes]
Failed(cause) == [err |-> TRUE, cause |-> cause, out |-> EmptyBody]

\* normalizeViaGoogleFHIR(patientJSON): the error flag and the bytes
normalizeViaGoogleFHIR(patientJSON) ==
    IF ValidatePatientR4(patientJSON) THEN Returned(patientJSON)
    ELSE Failed("normalize")

\* the steps after the unwrapping: the record that is a Patient is returned,
\* any other record is mapped and normalized
FromRecord(payload, pathID) ==
    LET b == Marshal(payload)
    IN IF LooksLikePatient(b) THEN Returned(b)
       ELSE normalizeViaGoogleFHIR(Marshal(MapPatient(payload, pathID)))

\* TransformBackendToFHIRPatient(beJSON, pathID): the error flag and the bytes
TransformBackendToFHIRPatient(beJSON, pathID) ==
    IF LooksLikePatient(beJSON) THEN Returned(beJSON)
    ELSE IF UnmarshalFails(beJSON) THEN Failed("json")
    ELSE FromRecord(Unwrap(Unmarshal(beJSON)), pathID)

BackendPatient == Json(<< <<"resourceType", S("Patient")>>, <<"id", S("be-1")>>,
                          <<"gender", S("other")>> >>)
BackendRecord == Json(<< <<"fileStatus", S("Active")>>, <<"gender", S("F")>> >>)
BackendError == Json(<< <<"status", S("error")>> >>)

\* what BE.GetPatient can return: (status, body, err)
BackendAnswer(status, body, err) == [status |-> status, body |-> body, err |-> err]
BackendAnswers ==
    {BackendAnswer(0, EmptyBody, TRUE),
     BackendAnswer(404, BackendError, FALSE),
     BackendAnswer(500, BackendError, FALSE),
     BackendAnswer(200, MalformedJson, FALSE),
     BackendAnswer(200, BackendPatient, FALSE),
     BackendAnswer(200, BackendRecord, FALSE)}

\* the GET branch of HandlePatientByID of the api package
GetFromBackend(id, a) ==
    IF a.err THEN writeSimpleOutcome(502, "backend service unavailable")
    ELSE IF a.status = 404
         THEN writeSimpleOutcome(404, "Patient not found in backend")
    ELSE IF a.status >= 200 /\ a.status < 300
         THEN LET t == TransformBackendToFHIRPatient(a.body, id)
              IN IF t.err
                 THEN writeSimpleOutcome(502,
                        "failed to transform backend response to FHIR Patient")
                 ELSE IF ~ValidatePatientR4(t.out)
                 THEN writeSimpleOutcome(502,
                        "generated Patient failed FHIR R4 validation")
                 ELSE writeResource(200, t.out, "")
    ELSE forwardBackend(a.status, a.body)

(***************************************************************************)
(* The write handlers' checks before they touch shared state.              *)
(***************************************************************************)
\* the checks of HandleCreatePatient and of PUT on the request body;
\* NoResponse when the body passes
CheckBody(data) ==
    IF ~looksLikePatient(data)
    THEN writeSimpleOutcome(400, "invalid resourceType (expected Patient)")
    ELSE IF ~ValidatePatientR4(data)
    THEN writeSimpleOutcome(400, "validation error")
    ELSE NoResponse

\* json.Unmarshal(data, &resource); resource["id"] = id; json.Marshal(resource)
EncodeWithId(data, id) == Marshal(SetId(Unmarshal(data), id))

VARIABLES
    build,      \* which GET the server has: "store" (main.go) or "backend" (api)
    store,      \* Mem.data / patientStore
    nextID,     \* the id counter
    readers,    \* goroutines holding the read lock
    writer,     \* the goroutines holding the write lock (at most one)
    pc,         \* where each request handler is
    req,        \* the request each handler serves
    enc,        \* each handler's local id, once it has one
    last,       \* the request answered by the latest step, and its response
    created,    \* the ids POST assigned, in the order of assignment
    pristine,   \* id -> body submitted by its POST, while no PUT/DELETE touched it
    deleted,    \* the ids a DELETE answered 204 for
    jreq,       \* the Java service's last request
    jresp,      \* the Java service's last response
    tin,        \* the arguments of TransformBackendToFHIRPatient
    tres,       \* what TransformBackendToFHIRPatient returned
    heap,       \* the backing arrays of the byte slices, by address
    memData,    \* Mem.data as Go holds it: id -> the slice's backing array
    held,       \* the backing arrays a caller of the store has a slice of
    memOp,      \* the store call or caller step taken last
    nin,        \* the normalizer called and the bytes of its argument
    nout,       \* what the normalizer returned
    sin,        \* the search handler's variant and the backend's answer
    sout        \* the search handler's response

javaVars == <<jreq, jresp>>
fhirVars == <<tin, tres>>
memVars == <<heap, memData, held, memOp>>
normVars == <<nin, nout>>
searchVars == <<sin, sout>>
otherVars == <<jreq, jresp, tin, tres, heap, memData, held, memOp,
               nin, nout, sin, sout>>
vars == <<build, store, nextID, readers, writer, pc, req, enc, last,
          created, pristine, deleted, jreq, jresp, tin, tres,
          heap, memData, held, memOp, nin, nout, sin, sout>>

NoLocal == ""
NoExchange == [req |-> NoRequest, resp |-> NoResponse]
NoJavaRequest == [body |-> EmptyBody, parserFault |-> FALSE,
                  validatorThrows |-> FALSE, messages |-> <<>>]
NoInput == [payload |-> EmptyBody, pathID |-> "(none)"]
NoResult == [done |-> FALSE, err |-> FALSE, cause |-> "", out |-> EmptyBody]
NoOp == [op |-> "", id |-> "", buf |-> 0]
NoCall == [fn |-> "", s |-> <<>>]
NoOutput == [done |-> FALSE, out |-> <<>>]
NoSearch == [variant |-> "", method |-> "", firstName |-> "", now |-> "",
             answer |-> [status |-> 0, body |-> EmptyBody, err |-> FALSE]]

\* no call of the transformation yet
InitFhir ==
    /\ tin = NoInput
    /\ tres = NoResult

\* NewMem(): an empty map; no slice allocated yet
InitMem ==
    /\ heap = <<>>
    /\ memData = [k \in {} |-> 0]
    /\ held = {}
    /\ memOp = NoOp

\* the servers before their first request
InitServers ==
    /\ build \in {"store", "backend"}
    /\ store = EmptyStore
    /\ nextID = 0
    /\ readers = {}
    /\ writer = {}
    /\ pc = [p \in Procs |-> "idle"]
    /\ req = [p \in Procs |-> NoRequest]
    /\ enc = [p \in Procs |-> NoLocal]
    /\ last = NoExchange
    /\ created = <<>>
    /\ pristine = EmptyStore
    /\ deleted = {}
    /\ jreq = NoJavaRequest
    /\ jresp = NoResponse

\* no normalizer called yet
InitNorm ==
    /\ nin = NoCall
    /\ nout = NoOutput

\* no search served yet
InitSearch ==
    /\ sin = NoSearch
    /\ sout = NoResponse

Init == InitServers /\ InitFhir /\ InitMem /\ InitNorm /\ InitSearch

\* the handler writes its response and returns; the goroutine is free again
Respond(p, rq, r) ==
    /\ last' = [req |-> rq, resp |-> r]
    /\ pc' = [pc EXCEPT ![p] = "idle"]
    /\ req' = [req EXCEPT ![p] = NoRequest]
    /\ enc' = [enc EXCEPT ![p] = NoLocal]

\* the handler goes on to its next step
Goto(p, rq, label) ==
    /\ pc' = [pc EXCEPT ![p] = label]
    /\ req' = [req EXCEPT ![p] = rq]
    /\ last' = NoExchange

LockUnchanged == UNCHANGED <<readers, writer>>

(***************************************************************************)
(* POST /fhir/Patient                                                      *)
(*                                                                         *)
(* A handler's steps up to its first access to shared state (reading the   *)
(* body, the checks, the decoding) are local and form one step with that   *)
(* access.                                                                 *)
(***************************************************************************)
\* the checks, then id := strconv.FormatInt(atomic.AddInt64(&nextID, 1), 10)
PostReceiveMut(p, raw) ==
    /\ pc[p] = "idle"
    /\ Len(created) < MaxCreates
    /\ LET data == ReadAllLimited(raw)
           n == AddInt64(nextID, 1)
       IN /\ nextID' = n
          /\ IF CheckBody(data) # NoResponse
             THEN /\ Respond(p, Received("POST", "", raw), CheckBody(data))
                  /\ created' = Append(created, FormatInt(n))
             ELSE /\ enc' = [enc EXCEPT ![p] = FormatInt(n)]
                  /\ created' = Append(created, FormatInt(n))
                  /\ Goto(p, Received("POST", "", raw), "post_lock")
    /\ UNCHANGED <<build, store, pristine, deleted>>
    /\ LockUnchanged
    /\ UNCHANGED otherVars
PostReceive(p, raw) ==
    /\ pc[p] = "idle"
    /\ LET data == ReadAllLimited(raw)
       IN IF CheckBody(data) # NoResponse
          THEN /\ Respond(p, Received("POST", "", raw), CheckBody(data))
               /\ UNCHANGED <<nextID, created>>
          ELSE /\ Len(created) < MaxCreates
               /\ LET n == AddInt64(nextID, 1)
                  IN /\ nextID' = n
                     /\ enc' = [enc EXCEPT ![p] = FormatInt(n)]
                     /\ created' = Append(created, FormatInt(n))
               /\ Goto(p, Received("POST", "", raw), "post_lock")
    /\ UNCHANGED <<build, store, pristine, deleted>>
    /\ LockUnchanged
    /\ UNCHANGED otherVars

\* Store.Put: m.mu.Lock()
PostLock(p) ==
    /\ pc[p] = "post_lock"
    /\ CanLock(readers, writer)
    /\ writer' = {p}
    /\ Goto(p, req[p], "post_cs")
    /\ UNCHANGED <<build, store, nextID, readers, enc, created, pristine, deleted>>
    /\ UNCHANGED otherVars

\* Store.Put: m.data[id] = resource; Unlock; then the 201 response
PostPut(p) ==
    /\ pc[p] = "post_cs"
    /\ LET encoded == EncodeWithId(req[p].body, enc[p])
       IN /\ store' = StorePut(store, enc[p], encoded)
          /\ Respond(p, req[p],
                     writeResource(201, encoded, "/fhir/Patient/" \o enc[p]))
    /\ pristine' = StorePut(pristine, enc[p], req[p].body)
    /\ writer' = {}
    /\ UNCHANGED <<build, nextID, readers, created, deleted>>
    /\ UNCHANGED otherVars

(***************************************************************************)
(* PUT /fhir/Patient/{id}                                                  *)
(***************************************************************************)
\* the checks, then Store.Exists: m.mu.RLock()
PutReceive(p, id, raw) ==
    /\ pc[p] = "idle"
    /\ LET data == ReadAllLimited(raw)
       IN IF CheckBody(data) # NoResponse
          THEN /\ Respond(p, Received("PUT", id, raw), CheckBody(data))
               /\ UNCHANGED readers
          ELSE /\ CanRLock(readers, writer)
               /\ readers' = readers \cup {p}
               /\ Goto(p, Received("PUT", id, raw), "put_exists")
               /\ UNCHANGED enc
    /\ UNCHANGED <<build, store, nextID, writer, created, pristine, deleted>>
    /\ UNCHANGED otherVars

\* Store.Exists: the lookup and RUnlock; 404 when absent
PutExists(p) ==
    /\ pc[p] = "put_exists"
    /\ readers' = readers \ {p}
    /\ IF req[p].id \notin DOMAIN store
       THEN Respond(p, req[p], writeSimpleOutcome(404, "Patient not found"))
       ELSE /\ enc' = [enc EXCEPT ![p] = req[p].id]
            /\ Goto(p, req[p], "put_lock")
    /\ UNCHANGED <<build, store, nextID, writer, created, pristine, deleted>>
    /\ UNCHANGED otherVars

\* Store.Put: m.mu.Lock()
PutLock(p) ==
    /\ pc[p] = "put_lock"
    /\ CanLock(readers, writer)
    /\ writer' = {p}
    /\ Goto(p, req[p], "put_cs")
    /\ UNCHANGED <<build, store, nextID, readers, enc, created, pristine, deleted>>
    /\ UNCHANGED otherVars

\* Store.Put: m.data[id] = resource; Unlock; then the 200 response
PutPut(p) ==
    /\ pc[p] = "put_cs"
    /\ LET encoded == EncodeWithId(req[p].body, enc[p])
       IN /\ store' = StorePut(store, enc[p], encoded)
          /\ Respond(p, req[p], writeResource(200, encoded, ""))
    /\ pristine' = StoreDelete(pristine, enc[p])
    /\ writer' = {}
    /\ UNCHANGED <<build, nextID, readers, created, deleted>>
    /\ UNCHANGED otherVars

(***************************************************************************)
(* DELETE /fhir/Patient/{id}                                               *)
(***************************************************************************)
\* Store.Delete: m.mu.Lock()
DeleteLock(p, id) ==
    /\ pc[p] = "idle"
    /\ CanLock(readers, writer)
    /\ writer' = {p}
    /\ Goto(p, Request("DELETE", id, EmptyBody), "del_cs")
    /\ UNCHANGED <<build, store, nextID, readers, enc, created, pristine, deleted>>
    /\ UNCHANGED otherVars

\* Store.Delete's result for the map as it is: found, and the map afterwards
DeleteResultMut(s, id) ==
    IF id \notin DOMAIN s THEN [found |-> FALSE, data |-> s]
    ELSE [found |-> TRUE, data |-> s]
DeleteResult(s, id) ==
    IF id \notin DOMAIN s THEN [found |-> FALSE, data |-> s]
    ELSE [found |-> TRUE, data |-> StoreDelete(s, id)]

\* Store.Delete: the lookup, delete and Unlock; then 204 or 404
DeleteEntry(p) ==
    /\ pc[p] = "del_cs"
    /\ LET r == DeleteResult(store, req[p].id)
       IN /\ store' = r.data
          /\ pristine' = StoreDelete(pristine, req[p].id)
          /\ IF r.found
             THEN /\ Respond(p, req[p], writeNoContent)
                  /\ deleted' = deleted \cup {req[p].id}
             ELSE /\ Respond(p, req[p], writeSimpleOutcome(404, "Patient not found"))
                  /\ UNCHANGED deleted
    /\ writer' = {}
    /\ UNCHANGED <<build, nextID, readers, created>>
    /\ UNCHANGED otherVars

(***************************************************************************)
(* GET /fhir/Patient/{id}                                                  *)
(***************************************************************************)
\* main.go, the GET served from the store: patientStoreMu.RLock()
GetRLock(p, id) ==
    /\ pc[p] = "idle"
    /\ build = "store"
    /\ CanRLock(readers, writer)
    /\ readers' = readers \cup {p}
    /\ Goto(p, Request("GET", id, EmptyBody), "get_cs")
    /\ UNCHANGED <<build, store, nextID, writer, enc, created, pristine, deleted>>
    /\ UNCHANGED otherVars

\* the GET branch of handlePatientByID of main.go, for the map as it is
GetFromStore(s, id) ==
    IF id \notin DOMAIN s THEN writeSimpleOutcome(404, "Patient not found")
    ELSE writeResource(200, s[id], "")

\* data, ok := patientStore[id]; RUnlock; then 200 or 404
GetRead(p) ==
    /\ pc[p] = "get_cs"
    /\ readers' = readers \ {p}
    /\ Respond(p, req[p], GetFromStore(store, req[p].id))
    /\ UNCHANGED <<build, store, nextID, writer, created, pristine, deleted>>
    /\ UNCHANGED otherVars

\* api package: the GET proxied to the backend
GetBackend(p, id, a) ==
    /\ pc[p] = "idle"
    /\ build = "backend"
    /\ Respond(p, Fetched(id, a), GetFromBackend(id, a))
    /\ UNCHANGED <<build, store, nextID, created, pristine, deleted>>
    /\ LockUnchanged
    /\ UNCHANGED otherVars

\* the default case of the method switch: http.Error(w, "method not allowed",
\* http.StatusMethodNotAllowed)
MethodNotAllowed(p, method, id) ==
    /\ pc[p] = "idle"
    /\ Respond(p, Request(method, id, EmptyBody), httpError(405))
    /\ UNCHANGED <<build, store, nextID, created, pristine, deleted>>
    /\ LockUnchanged
    /\ UNCHANGED otherVars

Next ==
    \/ \E p \in Procs, raw \in PostRequests : PostReceive(p, raw)
    \/ \E p \in Procs : PostLock(p)
    \/ \E p \in Procs : PostPut(p)
    \/ \E p \in Procs, id \in PathIds, raw \in PutRequests : PutReceive(p, id, raw)
    \/ \E p \in Procs : PutExists(p)
    \/ \E p \in Procs : PutLock(p)
    \/ \E p \in Procs : PutPut(p)
    \/ \E p \in Procs, id \in PathIds : DeleteLock(p, id)
    \/ \E p \in Procs : DeleteEntry(p)
    \/ \E p \in Procs, id \in PathIds : GetRLock(p, id)
    \/ \E p \in Procs : GetRead(p)
    \/ \E p \in Procs, id \in PathIds, a \in BackendAnswers : GetBackend(p, id, a)
    \/ \E p \in Procs, method \in OtherMethods, id \in PathIds :
          MethodNotAllowed(p, method, id)

Spec == Init /\ [][Next]_vars

(***************************************************************************)
(* The same handlers when the requests do not overlap: a handler takes a   *)
(* step only while every other handler is idle.                            *)
(***************************************************************************)
Alone(p) == \A q \in Procs \ {p} : pc[q] = "idle"

NextSeq ==
    \/ \E p \in Procs, raw \in PostRequests : Alone(p) /\ PostReceive(p, raw)
    \/ \E p \in Procs : Alone(p) /\ PostLock(p)
    \/ \E p \in Procs : Alone(p) /\ PostPut(p)
    \/ \E p \in Procs, id \in PathIds, raw \in PutRequests :
          Alone(p) /\ PutReceive(p, id, raw)
    \/ \E p \in Procs : Alone(p) /\ PutExists(p)
    \/ \E p \in Procs : Alone(p) /\ PutLock(p)
    \/ \E p \in Procs : Alone(p) /\ PutPut(p)
    \/ \E p \in Procs, id \in PathIds : Alone(p) /\ DeleteLock(p, id)
    \/ \E p \in Procs : Alone(p) /\ DeleteEntry(p)
    \/ \E p \in Procs, id \in PathIds : Alone(p) /\ GetRLock(p, id)
    \/ \E p \in Procs : Alone(p) /\ GetRead(p)
    \/ \E p \in Procs, id \in PathIds, a \in BackendAnswers :
          Alone(p) /\ GetBackend(p, id, a)
    \/ \E p \in Procs, method \in OtherMethods, id \in PathIds :
          Alone(p) /\ MethodNotAllowed(p, method, id)

SpecSeq == Init /\ [][NextSeq]_vars

(***************************************************************************)
(* The Java service: PatientValidationService.processCreatePatient.        *)
(***************************************************************************)
Severities == {"information", "warning", "error", "fatal"}
Blocking == {"error", "fatal"}

\* the element order HAPI's encoder writes a Patient in
HapiOrder == <<"resourceType", "id", "active", "gender">>

\* jsonParser.encodeResourceToString(patient)
EncodePatient(m) ==
    LET ks == SelectSeq(HapiOrder, LAMBDA k : k \in DOMAIN m)
    IN Json([i \in 1..Len(ks) |-> <<ks[i], m[ks[i]]>>])

\* strictParser.parseResource(patientJson) with the StrictErrorHandler:
\* how the call ends, and the type of the resource it parsed
StrictParse(body, fault) ==
    IF fault THEN [kind |-> "exception", type |-> ""]
    ELSE IF ~body.syntax THEN [kind |-> "malformed", type |-> ""]
    ELSE LET m == Unmarshal(body)
             rt == Field(m, "resourceType")
         IN IF rt \notin R4ResourceTypes THEN [kind |-> "invalid", type |-> ""]
            ELSE IF rt = "Patient" /\ ~ValidatePatientR4(body)
            THEN [kind |-> "invalid", type |-> ""]
            ELSE [kind |-> "parsed", type |-> rt]

\* an OperationOutcome as the body, with or without the X-Operation-Outcome header
OutcomeResponse(status, issues, withHeader) ==
    Response(status, FhirJson, "OperationOutcome", issues, EmptyBody, "",
             withHeader, IF withHeader THEN issues ELSE NoIssues)

\* the Patient as the body, the outcome in the X-Operation-Outcome header
PatientResponse(status, patient, issues) ==
    Response(status, FhirJson, "Patient", NoIssues, patient, "", TRUE, issues)

\* the parsed resource is no Patient
NotAPatient(actualType) ==
    OutcomeResponse(400,
        <<Issue("fatal", "exception",
                "Expected a Patient resource but received: " \o actualType)>>, FALSE)

\* catch (DataFormatException dfe): malformed JSON is 400, invalid content 422
ParseFailure(isMalformedJson) ==
    IF isMalformedJson
    THEN OutcomeResponse(400, <<Issue("fatal", "exception", "Malformed JSON")>>, FALSE)
    ELSE OutcomeResponse(422, <<Issue("error", "invalid", "invalid content")>>, TRUE)

\* catch (Exception ex)
ParseException ==
    OutcomeResponse(400,
        <<Issue("fatal", "exception", "Failed to parse Patient")>>, FALSE)

\* catch (Throwable validationError): creation is not blocked
ValidatorUnavailableMut(patient) ==
    OutcomeResponse(422,
        <<Issue("error", "exception", "Validation skipped due to internal error")>>,
        TRUE)
ValidatorUnavailable(patient) ==
    PatientResponse(201, patient,
        <<Issue("warning", "informational",
                "Validation skipped due to internal error")>>)

\* ValidationResult.isSuccessful(): no message of severity error or fatal
isSuccessful(messages) ==
    \A i \in 1..Len(messages) : messages[i] \notin Blocking

\* ValidationResult.toOperationOutcome(): one issue per message, and a single
\* information issue when there is no message
toOperationOutcome(messages) ==
    IF messages = <<>>
    THEN <<Issue("information", "informational", "No issues detected")>>
    ELSE [i \in 1..Len(messages) |-> Issue(messages[i], "processing", "message")]

\* the validator ran: 422 with the outcome, or 201 with the Patient
ValidatedMut(patient, messages) ==
    PatientResponse(201, patient, toOperationOutcome(messages))
Validated(patient, messages) ==
    IF ~isSuccessful(messages)
    THEN OutcomeResponse(422, toOperationOutcome(messages), TRUE)
    ELSE PatientResponse(201, patient, toOperationOutcome(messages))

processCreatePatient(rq) ==
    LET parsed == StrictParse(rq.body, rq.parserFault)
        patient == EncodePatient(Unmarshal(rq.body))
    IN CASE parsed.kind = "exception" -> ParseException
         [] parsed.kind = "malformed" -> ParseFailure(TRUE)
         [] parsed.kind = "invalid" -> ParseFailure(FALSE)
         [] parsed.kind = "parsed" /\ parsed.type # "Patient" ->
                NotAPatient(parsed.type)
         [] OTHER ->
                IF rq.validatorThrows THEN ValidatorUnavailable(patient)
                ELSE Validated(patient, rq.messages)

\* the validator's messages, by severity
MessageLists == UNION {[1..k -> Severities] : k \in 0..MaxIssues}

GoUnchanged == UNCHANGED <<build, store, nextID, readers, writer, pc, req, enc,
                           last, created, pristine, deleted, tin, tres,
                           heap, memData, held, memOp, nin, nout, sin, sout>>

\* PatientController.createPatient receives a request; what the parser and the
\* validator will do with it is part of the input
JavaReceive(body, fault, throws, messages) ==
    /\ jreq = NoJavaRequest
    /\ jresp = NoResponse
    /\ jreq' = [body |-> body, parserFault |-> fault,
                validatorThrows |-> throws, messages |-> messages]
    /\ UNCHANGED jresp
    /\ GoUnchanged

\* validationService.processCreatePatient(patientJson)
JavaCreate ==
    /\ jreq # NoJavaRequest
    /\ jresp = NoResponse
    /\ jresp' = processCreatePatient(jreq)
    /\ UNCHANGED jreq
    /\ GoUnchanged

\* the response is sent; the stateless service waits for the next request
JavaReturn ==
    /\ jresp # NoResponse
    /\ jreq' = NoJavaRequest
    /\ jresp' = NoResponse
    /\ GoUnchanged

NextJava ==
    \/ \E body \in PostBodies, fault \in BOOLEAN, throws \in BOOLEAN,
          messages \in MessageLists : JavaReceive(body, fault, throws, messages)
    \/ JavaCreate
    \/ JavaReturn

SpecJava == Init /\ [][NextJava]_vars

(***************************************************************************)
(* store.Mem and its callers, with the byte slices as Go holds them: a     *)
(* []byte is a view of a backing array, and copying the slice (passing it  *)
(* to Put, storing it in the map, returning it from Get) shares the array. *)
(***************************************************************************)
MemIds == {"1", "2"}
Contents == {BodyDoe, BodyJane}

ServersUnchanged == UNCHANGED <<build, store, nextID, readers, writer, pc, req,
                                enc, last, created, pristine, deleted,
                                jreq, jresp, tin, tres, nin, nout, sin, sout>>

\* a caller makes a byte slice (io.ReadAll, json.Marshal)
CallerMake(content) ==
    /\ Len(heap) < MaxBufs
    /\ heap' = Append(heap, content)
    /\ held' = held \cup {Len(heap) + 1}
    /\ memOp' = [op |-> "make", id |-> "", buf |-> Len(heap) + 1]
    /\ UNCHANGED memData
    /\ ServersUnchanged

\* Mem.Put(id, resource): m.data[id] = resource
MemPut(id, a) ==
    /\ a \in held
    /\ memData' = StorePut(memData, id, a)
    /\ memOp' = [op |-> "Put", id |-> id, buf |-> a]
    /\ UNCHANGED <<heap, held>>
    /\ ServersUnchanged

\* Mem.Get(id): b, ok := m.data[id]; return b, ok
MemGet(id) ==
    /\ IF id \in DOMAIN memData
       THEN /\ held' = held \cup {memData[id]}
            /\ memOp' = [op |-> "Get", id |-> id, buf |-> memData[id]]
       ELSE /\ memOp' = [op |-> "Get", id |-> id, buf |-> 0]
            /\ UNCHANGED held
    /\ UNCHANGED <<heap, memData>>
    /\ ServersUnchanged

\* Mem.Delete(id)
MemDelete(id) ==
    /\ memData' = DeleteResult(memData, id).data
    /\ memOp' = [op |-> "Delete", id |-> id, buf |-> 0]
    /\ UNCHANGED <<heap, held>>
    /\ ServersUnchanged

\* a caller writes into a slice it holds (b[i] = c, copy(b, ...))
CallerModify(a, content) ==
    /\ a \in held
    /\ heap[a] # content
    /\ heap' = [heap EXCEPT ![a] = content]
    /\ memOp' = [op |-> "modify", id |-> "", buf |-> a]
    /\ UNCHANGED <<memData, held>>
    /\ ServersUnchanged

NextMem ==
    \/ \E content \in Contents : CallerMake(content)
    \/ \E id \in MemIds, a \in 1..MaxBufs : MemPut(id, a)
    \/ \E id \in MemIds : MemGet(id)
    \/ \E id \in MemIds : MemDelete(id)
    \/ \E a \in 1..MaxBufs, content \in Contents : CallerModify(a, content)

SpecMem == Init /\ [][NextMem]_vars

(***************************************************************************)
(* TransformBackendToFHIRPatient on its own: the backend payloads and the  *)
(* path ids it is called with.                                             *)
(***************************************************************************)
RecAnn ==
    ("fileStatus" :> S("Active")) @@ ("gender" :> S("F"))
    @@ ("firstName" :> S("Ann")) @@ ("lastName" :> S("Lee"))
    @@ ("dateOfBirth" :> S("1990-12-31T10:00:00")) @@ ("upi" :> S("U1"))
    @@ ("id" :> N(77))
RecFallback ==
    ("firstName" :> S("-")) @@ ("givenName" :> S("Ann"))
    @@ ("middleName" :> S(" ")) @@ ("thirdName" :> S(" Bo "))
    @@ ("lastName" :> S("null")) @@ ("familyName" :> S("Lee"))
    @@ ("gender_text" :> S(" ")) @@ ("gender" :> S("M"))
    @@ ("legacyMRN" :> N(42)) @@ ("fullName" :> S(""))
    @@ ("street" :> S(" - ")) @@ ("city" :> S("Colombo"))
    @@ ("country" :> S("lk"))
RecBadDate == ("dateOfBirth" :> S("31/12/1990")) @@ ("firstName" :> S("Ann"))
RecTyped ==
    ("isDeceased" :> B(TRUE)) @@ ("firstName" :> O("en" :> S("Ann")))
    @@ ("phoneNumber" :> N(5551)) @@ ("fileStatus" :> B(TRUE))
    @@ ("email" :> L(<<S("a@b.c")>>)) @@ ("unmapped" :> S("x"))
RecPhotoBad ==
    ("photoUrl" :> S("http://img/p.PNG")) @@ ("photoCreatedOn" :> S("yesterday"))
RecPhoto ==
    ("photoBase64" :> S("QUJD")) @@ ("contentType" :> S("image/gif"))
    @@ ("photoTitle" :> S("me")) @@ ("createdOn" :> S("2020-01-02T03:04:05Z"))
RecContact ==
    ("emergencyContactName" :> S("Bob Lee"))
    @@ ("emergencyContactFirstName" :> S("Bob"))
    @@ ("emergencyContactPhoneNumber" :> S("555"))
    @@ ("emergencyContactRelationship" :> S("brother"))
    @@ ("primaryHealthcarePhysician" :> S("P9"))
    @@ ("primaryHealthcareCenter" :> S("C3"))
    @@ ("linkedParentUpi" :> S("U0")) @@ ("registeredAt" :> S("H1"))
    @@ ("language" :> S("en")) @@ ("maritialStatus" :> N(2))
    @@ ("idType" :> S("nic")) @@ ("idNumber" :> S("900"))
    @@ ("isDeceased" :> S("No"))
RecPatient == Unmarshal(BackendPatient)
RecBadPatient == Unmarshal(BodyBadGender)
RecLowerPatient == ("resourceType" :> S("patient")) @@ ("gender" :> S("male"))
RecPractitioner == ("resourceType" :> S("Practitioner")) @@ ("active" :> B(TRUE))
RecObservation == Unmarshal(BodyObservation)

\* the records a backend payload carries, bare or wrapped
Records == {RecAnn, RecFallback, RecBadDate, EmptyMap, RecTyped, RecPhotoBad,
            RecPhoto, RecContact, RecPatient, RecBadPatient, RecLowerPatient,
            RecPractitioner, RecObservation}
\* the records sent as `details` next to a `data`
PairedRecords == {RecAnn, RecFallback, RecPatient}

\* the envelope shapes
Details(M) == Json(<< <<"details", O(M)>> >>)
DetailsAmongOthers(M) ==
    Json(<< <<"status", S("ok")>>, <<"gender", S("M")>>, <<"details", O(M)>> >>)
DataText(M) == Json(<< <<"data", T(Marshal(M))>>, <<"firstName", S("Zed")>> >>)
DataMap(M) == Json(<< <<"data", O(M)>> >>)
DetailsAndData(M1, M2) == Json(<< <<"details", O(M1)>>, <<"data", O(M2)>> >>)
DataTextAndDetails(M1, M2) ==
    Json(<< <<"data", T(Marshal(M2))>>, <<"details", O(M1)>> >>)
\* envelope keys that hold no record
DetailsNoMapping(M) == Marshal(M @@ ("details" :> S("n/a")))
DataNoJson(M) == Marshal(M @@ ("data" :> S("not json")))
DataNullText(M) == Marshal(M @@ ("data" :> S("null")))
DataList(M) == Marshal(M @@ ("data" :> L(<<O(RecAnn)>>)))
DetailsAndBrokenData(M) ==
    Json(<< <<"details", O(M)>>, <<"data", S("not json")>> >>)

Payloads ==
    {Marshal(M) : M \in Records}
    \cup {Details(M) : M \in Records}
    \cup {DetailsAmongOthers(M) : M \in Records}
    \cup {DataText(M) : M \in Records}
    \cup {DataMap(M) : M \in Records}
    \cup {DetailsAndData(M1, M2) : M1 \in PairedRecords, M2 \in PairedRecords}
    \cup {DataTextAndDetails(M1, M2) : M1 \in PairedRecords, M2 \in PairedRecords}
    \cup {DetailsNoMapping(M) : M \in PairedRecords}
    \cup {DataNoJson(M) : M \in PairedRecords}
    \cup {DataNullText(M) : M \in PairedRecords}
    \cup {DataList(M) : M \in PairedRecords}
    \cup {DetailsAndBrokenData(M) : M \in PairedRecords}
    \cup {MalformedJson, JsonArray, JsonNull, BackendPatient, BodyDoe}

\* the path id of a GET by id, and the empty id of the search handler
TransformIds == {"7", ""}

FhirUnchanged == UNCHANGED <<build, store, nextID, readers, writer, pc, req, enc,
                             last, created, pristine, deleted, jreq, jresp,
                             heap, memData, held, memOp, nin, nout, sin, sout>>

\* a handler calls fhir.TransformBackendToFHIRPatient(body, id)
TransformCall(beJSON, pathID) ==
    /\ tin' = [payload |-> beJSON, pathID |-> pathID]
    /\ tres' = NoResult
    /\ FhirUnchanged

\* the call returns
TransformReturn ==
    /\ tin # NoInput
    /\ ~tres.done
    /\ tres' = [done |-> TRUE]
               @@ TransformBackendToFHIRPatient(tin.payload, tin.pathID)
    /\ UNCHANGED tin
    /\ FhirUnchanged

NextTransform ==
    \/ \E beJSON \in Payloads, pathID \in TransformIds :
          TransformCall(beJSON, pathID)
    \/ TransformReturn

SpecTransform == Init /\ [][NextTransform]_vars

(***************************************************************************)
(* The normalizers on their own: normalizeDate and normalizeGender applied *)
(* to the bytes of bounded inputs.                                         *)
(***************************************************************************)
\* every sequence over the alphabet of at most n bytes
SeqsUpTo(alphabet, n) == UNION {[1..k -> alphabet] : k \in 0..n}

\* dates and date-times, whole or cut short, with and without padding
DatePads == {<<>>, <<" ">>}
DateBodies == {Bytes("1990-12-31"), Bytes("1990-12"), Bytes("1990"),
               Bytes("31/12/1990"), Bytes("1990-12-31+05:30"), <<>>}
DateSeparators == {<<>>, <<"T">>, <<" ">>}
DateTails == {<<>>, Bytes("10:00"), Bytes("10:00:00Z")}
DateInputs ==
    {p1 \o b \o sep \o t \o p2 :
        p1 \in DatePads, b \in DateBodies, sep \in DateSeparators,
        t \in DateTails, p2 \in DatePads}

\* gender codes and words, in both cases, padded, and every short string over
\* a small alphabet
GenderAlphabet == {"m", "M", "f", "x", " "}
GenderWords == {"male", "female", "other", "unknown", "Male", "FEMALE", "Other",
                "man", "femme", "Fem", "nonbinary", "not-a-valid-code",
                "F", "o", "u", "0", "1", "2", "3", "9", "om", "uf"}
GenderInputs ==
    SeqsUpTo(GenderAlphabet, MaxLen)
    \cup {p1 \o Bytes(w) \o p2 : p1 \in DatePads, w \in GenderWords,
                                 p2 \in DatePads}

NormUnchanged == UNCHANGED <<build, store, nextID, readers, writer, pc, req, enc,
                             last, created, pristine, deleted, jreq, jresp,
                             tin, tres, heap, memData, held, memOp, sin, sout>>

\* the mapper calls normalizeDate(dob)
DateCall(s) ==
    /\ nin = NoCall \/ nout.done
    /\ nin' = [fn |-> "normalizeDate", s |-> s]
    /\ nout' = NoOutput
    /\ NormUnchanged

\* normalizeDate returns
DateReturn ==
    /\ nin.fn = "normalizeDate"
    /\ ~nout.done
    /\ nout' = [done |-> TRUE, out |-> normalizeDate(nin.s)]
    /\ UNCHANGED nin
    /\ NormUnchanged

\* the mapper calls normalizeGender(g)
GenderCall(g) ==
    /\ nin = NoCall \/ nout.done
    /\ nin' = [fn |-> "normalizeGender", s |-> g]
    /\ nout' = NoOutput
    /\ NormUnchanged

\* normalizeGender returns
GenderReturn ==
    /\ nin.fn = "normalizeGender"
    /\ ~nout.done
    /\ nout' = [done |-> TRUE, out |-> normalizeGender(nin.s)]
    /\ UNCHANGED nin
    /\ NormUnchanged

NextNormalize ==
    \/ \E s \in DateInputs : DateCall(s)
    \/ DateReturn
    \/ \E g \in GenderInputs : GenderCall(g)
    \/ GenderReturn

SpecNormalize == Init /\ [][NextNormalize]_vars

(***************************************************************************)
(* GET /fhir/Patient: the search handlers of the api package               *)
(* (HandleSearchPatients) and of the handlers package                      *)
(* (HandlePatientSearch), each run on the backend's answer.                *)
(***************************************************************************)
MaxItems == 2

\* json.Marshal(v) of a decoded value: an object's members sorted by key, any
\* other value a well-formed text that is no object
MarshalValue(v) ==
    IF v.t = "object" THEN Marshal(v.m)
    ELSE [syntax |-> TRUE, top |-> v.t, members |-> <<>>]

\* the entry of a record that passed: its Patient and search.mode
Entry(patJSON) ==
    O(("resource" :> O(Unmarshal(patJSON)))
      @@ ("search" :> O("mode" :> S("match"))))

\* randomUUIDLike(s) at the clock reading now
randomUUIDLike(s, now) == (IF s = "" THEN "x" ELSE s) \o "-" \o now

\* the entry of the handlers package, with its fullUrl
EntryWithUrl(patJSON, pid, now) ==
    O(("fullUrl" :> S("urn:uuid:" \o randomUUIDLike(pid, now))) @@ Entry(patJSON).m)

\* one turn of the loop over the records: `continue` when the transformation
\* or the validation returned an error, entries = append(entries, entry)
\* otherwise
AppendEntryMut(entries, t, entry) ==
    IF t.err \/ ~ValidatePatientR4(t.out) THEN <<>> ELSE Append(entries, entry)
AppendEntry(entries, t, entry) ==
    IF t.err \/ ~ValidatePatientR4(t.out) THEN entries ELSE Append(entries, entry)

\* recBytes of an element of the backend's list (api package): the `details`
\* mapping marshalled, else the non-empty `data` string, else nothing
recBytes(it) ==
    IF it.t = "object" /\ "details" \in DOMAIN it.m /\ it.m["details"].t = "object"
    THEN [some |-> TRUE, bytes |-> Marshal(it.m["details"].m)]
    ELSE IF /\ it.t = "object" /\ "data" \in DOMAIN it.m
            /\ it.m["data"].t = "string" /\ it.m["data"].s # ""
    THEN [some |-> TRUE, bytes |-> it.m["data"].text]
    ELSE [some |-> FALSE, bytes |-> EmptyBody]

\* the loop of HandleSearchPatients over itemsRaw
RECURSIVE apiEntries(_, _)
apiEntries(itemsRaw, entries) ==
    IF itemsRaw = <<>> THEN entries
    ELSE LET rec == recBytes(Head(itemsRaw))
             t == TransformBackendToFHIRPatient(rec.bytes, "")
         IN apiEntries(Tail(itemsRaw),
                       IF ~rec.some THEN entries
                       ELSE AppendEntry(entries, t, Entry(t.out)))

\* pid of an item (handlers package): its `id` string, else its `upi` string
itemPid(item) ==
    IF item.t # "object" THEN ""
    ELSE IF Field(item.m, "id") # "" THEN Field(item.m, "id")
    ELSE Field(item.m, "upi")

\* the loop of HandlePatientSearch over items
RECURSIVE handlerEntries(_, _, _)
handlerEntries(items, entries, now) ==
    IF items = <<>> THEN entries
    ELSE LET item == Head(items)
             pid == itemPid(item)
             t == TransformBackendToFHIRPatient(MarshalValue(item), pid)
         IN handlerEntries(Tail(items),
                           AppendEntry(entries, t, EntryWithUrl(t.out, pid, now)),
                           now)

\* a key of a decoded object that holds an array
HasList(m, k) == k \in DOMAIN m /\ m[k].t = "array"

\* extractItems(m): data.rows, data.list, data[], rows, list
extractItems(m) ==
    LET d == IF "data" \in DOMAIN m THEN m["data"] ELSE S("")
    IN IF d.t = "object" /\ HasList(d.m, "rows") THEN d.m["rows"].xs
       ELSE IF d.t = "object" /\ HasList(d.m, "list") THEN d.m["list"].xs
       ELSE IF d.t = "array" THEN d.xs
       ELSE IF HasList(m, "rows") THEN m["rows"].xs
       ELSE IF HasList(m, "list") THEN m["list"].xs
       ELSE <<>>

\* strconv.Atoi over the strings the inputs use: one decimal digit, or an error
Atoi(s) ==
    IF \E i \in 1..Len(Digits) : Digits[i] = s
    THEN [err |-> FALSE, n |-> (CHOOSE i \in 1..Len(Digits) : Digits[i] = s) - 1]
    ELSE [err |-> TRUE, n |-> 0]

\* total of the handlers package: the backend's totalRows when it is a number
\* or a numeric string, the number of entries otherwise
totalRowsMut(anyMap, n) == n
totalRows(anyMap, n) ==
    IF "totalRows" \notin DOMAIN anyMap THEN n
    ELSE LET v == anyMap["totalRows"]
         IN CASE v.t = "number" -> v.n
              [] v.t = "string" -> IF Atoi(v.s).err THEN n ELSE Atoi(v.s).n
              [] OTHER -> n

\* the searchset Bundle and the 200 response that carries it
Bundle(total, entries) ==
    Marshal(("resourceType" :> S("Bundle")) @@ ("type" :> S("searchset"))
            @@ ("total" :> N(total)) @@ ("entry" :> L(entries)))
writeBundle(bundle) ==
    Response(200, FhirJson, "Bundle", NoIssues, bundle, "", FALSE, NoIssues)

\* HandleSearchPatients of the api package
HandleSearchPatients(rq) ==
    LET a == rq.answer
    IN IF rq.method # "GET" THEN httpError(405)
       ELSE IF TrimSpace(rq.firstName) = ""
       THEN writeSimpleOutcome(400, "missing required query parameter: firstName")
       ELSE IF a.err THEN writeSimpleOutcome(502, "backend service unavailable")
       ELSE IF a.status < 200 \/ a.status >= 300
       THEN forwardBackend(a.status, a.body)
       ELSE IF UnmarshalFails(a.body)
       THEN writeSimpleOutcome(502, "unexpected backend search payload")
       ELSE LET envelope == Unmarshal(a.body)
                itemsRaw == IF HasList(envelope, "data")
                            THEN envelope["data"].xs ELSE <<>>
                entries == apiEntries(itemsRaw, <<>>)
            IN writeBundle(Bundle(Len(entries), entries))

\* HandlePatientSearch of the handlers package
HandlePatientSearch(rq) ==
    LET a == rq.answer
    IN IF rq.method # "GET" THEN httpError(405)
       ELSE IF a.err THEN writeSimpleOutcome(502, "backend service unavailable")
       ELSE IF a.status < 200 \/ a.status >= 300
       THEN forwardBackend(a.status, a.body)
       ELSE IF UnmarshalFails(a.body)
       THEN writeSimpleOutcome(502, "invalid backend search response")
       ELSE LET anyMap == Unmarshal(a.body)
                entries == handlerEntries(extractItems(anyMap), <<>>, rq.now)
            IN writeBundle(Bundle(totalRows(anyMap, Len(entries)), entries))

\* the elements of a backend page: records wrapped in `details` or in a `data`
\* string, bare records, and elements that hold no record
ItemAnn == O(RecAnn)
ItemBadDate == O(("id" :> S("p3")) @@ RecBadDate)
ItemPatient == O(RecPatient)
ItemDetailsAnn == O("details" :> O(RecAnn))
ItemDetailsPatient == O("details" :> O(RecPatient))
ItemDataPatient == O("data" :> T(Marshal(RecPatient)))
ItemDataBroken == O("data" :> S("not json"))
ItemText == S("n/a")
Items == {ItemAnn, ItemBadDate, ItemPatient, ItemDetailsAnn, ItemDetailsPatient,
          ItemDataPatient, ItemDataBroken, ItemText}

\* the pages of at most MaxItems elements
Pages == SeqsUpTo(Items, MaxItems)

\* the envelopes the backend wraps a page in
DataPage(xs) == Json(<< <<"data", L(xs)>> >>)
DataRows(xs, n) == Json(<< <<"data", O("rows" :> L(xs))>>, <<"totalRows", n>> >>)
RowsPage(xs) == Json(<< <<"rows", L(xs)>> >>)
CountedPage(xs, n) == Json(<< <<"data", L(xs)>>, <<"totalRows", n>> >>)
RowCounts == {N(7), S("5"), S("many")}
SearchBodies ==
    {DataPage(xs) : xs \in Pages}
    \cup {RowsPage(xs) : xs \in Pages}
    \cup {DataRows(xs, N(7)) : xs \in Pages}
    \cup {CountedPage(xs, n) : xs \in Pages, n \in RowCounts}
    \cup {MalformedJson, JsonNull, EmptyBody, BackendError}

\* what BE.SearchPatients can return
SearchAnswers ==
    {BackendAnswer(0, EmptyBody, TRUE), BackendAnswer(500, BackendError, FALSE)}
    \cup {BackendAnswer(200, body, FALSE) : body \in SearchBodies}

SearchVariants == {"api", "handlers"}
Clock == "20240102030405.000000000"

\* a search request: the method, the firstName parameter, the clock reading
\* and the backend's answer to the proxied search
Search(variant, method, firstName, a) ==
    [variant |-> variant, method |-> method, firstName |-> firstName,
     now |-> Clock, answer |-> a]
SearchRequests ==
    {Search(v, "GET", "Ann", a) : v \in SearchVariants, a \in SearchAnswers}
    \cup {Search(v, m, f, BackendAnswer(200, DataPage(<<ItemPatient>>), FALSE)) :
             v \in SearchVariants, m \in {"GET", "DELETE"}, f \in {" ", ""}}

SearchUnchanged == UNCHANGED <<build, store, nextID, readers, writer, pc, req, enc,
                               last, created, pristine, deleted, jreq, jresp,
                               tin, tres, heap, memData, held, memOp, nin, nout>>

\* a request reaches the search handler of one of the packages and the
\* backend's answer comes back
SearchReceive(rq) ==
    /\ sin = NoSearch
    /\ sin' = rq
    /\ sout' = NoResponse
    /\ SearchUnchanged

\* HandleSearchPatients writes its response
ApiSearchRespond ==
    /\ sin.variant = "api"
    /\ sout = NoResponse
    /\ sout' = HandleSearchPatients(sin)
    /\ UNCHANGED sin
    /\ SearchUnchanged

\* HandlePatientSearch writes its response
HandlerSearchRespond ==
    /\ sin.variant = "handlers"
    /\ sout = NoResponse
    /\ sout' = HandlePatientSearch(sin)
    /\ UNCHANGED sin
    /\ SearchUnchanged

NextSearch ==
    \/ \E rq \in SearchRequests : SearchReceive(rq)
    \/ ApiSearchRespond
    \/ HandlerSearchRespond

SpecSearch == Init /\ [][NextSearch]_vars

(***************************************************************************)
(* Properties.                                                             *)
(***************************************************************************)
InWrite(p) == pc[p] \in {"post_cs", "put_cs", "del_cs"}
InRead(p) == pc[p] \in {"put_exists", "get_cs"}
HasBlocking(issues) == \E i \in 1..Len(issues) : issues[i].severity \in Blocking
IsGoPost == last.req.method = "POST"
WrongType(body) ==
    /\ body.syntax
    /\ Field(Unmarshal(body), "resourceType") \in R4ResourceTypes \ {"Patient"}
InvalidPatient(body) ==
    /\ body.syntax
    /\ Field(Unmarshal(body), "resourceType") = "Patient"
    /\ ~ValidatePatientR4(body)
JavaAnswered == jresp # NoResponse
JavaParsedPatient ==
    /\ JavaAnswered
    /\ StrictParse(jreq.body, jreq.parserFault) = [kind |-> "parsed", type |-> "Patient"]

\* C1: in every interleaving, a PUT writes to the store only when its id is
\* present at the moment of the write (it never adds an absent key), and a PUT
\* whose existence check finds the id absent answers 404 and leaves the store
\* unchanged.
C1_PutOnlyOverwrites ==
    [][\A p \in Procs :
        /\ (pc[p] = "put_cs" /\ pc'[p] = "idle") => req[p].id \in DOMAIN store
        /\ (pc[p] = "put_exists" /\ pc'[p] # "put_exists"
                /\ req[p].id \notin DOMAIN store)
            => (last'.resp.status = 404 /\ store' = store)]_vars

\* C2: the ids concurrent POSTs are assigned are pairwise distinct, although
\* the id is taken from the counter before the store lock is acquired: no two
\* assignments give the same id, no two creates in flight hold the same id, and
\* a create that is about to write finds no entry under its id.
C2_DistinctIds ==
    /\ \A i, j \in 1..Len(created) : i # j => created[i] # created[j]
    /\ \A p, q \in Procs :
          (p # q /\ pc[p] \in {"post_lock", "post_cs"}
                 /\ pc[q] \in {"post_lock", "post_cs"}) => enc[p] # enc[q]
    /\ \A p \in Procs :
          pc[p] \in {"post_lock", "post_cs"} => enc[p] \notin DOMAIN store

\* two POSTs hold their ids at the same time, before either has the store lock
C2_Witness ==
    \E p, q \in Procs : p # q /\ pc[p] = "post_lock" /\ pc[q] = "post_lock"

\* C3: reader/writer exclusion: while a Put or Delete is inside its critical
\* section no other Put, Delete, Get or Exists is inside its own.
C3_ReaderWriterExclusion ==
    \A p \in Procs : InWrite(p) => \A q \in Procs \ {p} : ~InWrite(q) /\ ~InRead(q)

\* a Get and an Exists are inside their critical sections at the same time
C3_Witness ==
    \E p, q \in Procs : p # q /\ pc[p] = "get_cs" /\ pc[q] = "put_exists"

\* C4: a POST whose body is malformed JSON, or a well-formed resource of a type
\* other than Patient, is answered 400 with an OperationOutcome whose first
\* issue has severity fatal and code exception.
C4_RejectedPostIsFatalException ==
    (IsGoPost /\ (~last.req.body.syntax \/ WrongType(last.req.body)))
        => /\ last.resp.status = 400
           /\ last.resp.kind = "OperationOutcome"
           /\ Len(last.resp.issues) >= 1
           /\ last.resp.issues[1].severity = "fatal"
           /\ last.resp.issues[1].code = "exception"

\* C5: a POST whose body is a well-formed Patient that fails validation is
\* answered 422, never 400 or 201, with a report holding an error or fatal
\* issue.
C5_InvalidPatientIs422 ==
    (IsGoPost /\ InvalidPatient(last.req.body))
        => /\ last.resp.status = 422
           /\ HasBlocking(last.resp.issues)

\* C6: when the structural parse of a POSTed Patient succeeds and the validator
\* is unavailable or throws, the answer is 201 with the Patient as the body and
\* a report of exactly one issue, of severity warning and code informational.
C6_ValidatorUnavailableAccepted ==
    (JavaParsedPatient /\ jreq.validatorThrows)
        => /\ jresp.status = 201
           /\ jresp.kind = "Patient"
           /\ jresp.body = EncodePatient(Unmarshal(jreq.body))
           /\ jresp.outcomeHeader
           /\ Len(jresp.headerIssues) = 1
           /\ jresp.headerIssues[1].severity = "warning"
           /\ jresp.headerIssues[1].code = "informational"

\* the validator threw on a Patient that parsed, and the service has answered
C6_Witness ==
    /\ JavaParsedPatient
    /\ jreq.validatorThrows
    /\ jresp.status = 201

\* C7: for a POST whose body parses as a Patient and whose validator runs, the
\* answer is 201 with the Patient as the body exactly when the report has no
\* issue of severity error or fatal; otherwise the answer is 422 with the
\* report as the body.
C7_CreatedIffNoBlockingIssue ==
    (JavaParsedPatient /\ ~jreq.validatorThrows)
        => /\ (jresp.status = 201 /\ jresp.kind = "Patient")
                <=> ~HasBlocking(jresp.headerIssues)
           /\ HasBlocking(jresp.headerIssues)
                => (jresp.status = 422 /\ jresp.kind = "OperationOutcome")
           /\ Len(jresp.headerIssues) >= 1

\* the validator reported a warning and an error, and the answer is 422
C7_Witness ==
    /\ JavaParsedPatient
    /\ ~jreq.validatorThrows
    /\ jreq.messages = <<"warning", "error">>
    /\ jresp.status = 422

\* C8: every POST response with status 201 or 422 carries the issue report in
\* the X-Operation-Outcome header, and on 422 the header report is the body
\* report.
C8_OutcomeHeaderOn201And422 ==
    (IsGoPost /\ last.resp.status \in {201, 422})
        => /\ last.resp.outcomeHeader
           /\ last.resp.status = 422 => last.resp.headerIssues = last.resp.issues

\* C9: after a successful POST, a GET on the id of its Location header answers
\* 200 with the JSON that was submitted, identical except for the injected id,
\* as long as no PUT or DELETE on that id happened in between.
C9_RoundTrip ==
    (last.req.method = "GET" /\ last.req.id \in DOMAIN pristine)
        => /\ last.resp.status = 200
           /\ last.resp.body.syntax
           /\ Unmarshal(last.resp.body)
                = SetId(Unmarshal(pristine[last.req.id]), last.req.id)

\* C10: DELETE answers 204 exactly when the id is in the store at the time of
\* the delete, and then the id is absent; on an id that was never created or
\* was already deleted it answers 404 and leaves the store unchanged.
C10_Delete ==
    [][\A p \in Procs :
        (pc[p] = "del_cs" /\ pc'[p] = "idle")
            => /\ last'.resp.status \in {204, 404}
               /\ (last'.resp.status = 204) <=> (req[p].id \in DOMAIN store)
               /\ req[p].id \notin DOMAIN store'
               /\ last'.resp.status = 404 => store' = store
               /\ (req[p].id \in deleted
                    \/ \A i \in 1..Len(created) : created[i] # req[p].id)
                  => last'.resp.status = 404]_vars

\* the ids POST has assigned so far
Assigned(ids) == {ids[i] : i \in 1..Len(ids)}
\* v is the submitted body with the id set, as a JSON value
IsBodyWithId(v, body, id) == v.syntax /\ Unmarshal(v) = SetId(Unmarshal(body), id)

\* C11: when the requests do not overlap the store behaves as a reference map:
\* a successful POST adds the body under a fresh id, a successful PUT replaces
\* the value of a present id, a successful DELETE removes the id, and every
\* other step (a GET, a rejected request, an operation on another id) leaves
\* every entry as it is; between requests the ids present are exactly those a
\* POST assigned and no DELETE removed.
C11_ReferenceMap ==
    [][/\ CASE last'.req.method = "POST" /\ last'.resp.status = 201 ->
                  \E id \in Assigned(created) \ (DOMAIN store \cup deleted) :
                     /\ last'.resp.location = "/fhir/Patient/" \o id
                     /\ DOMAIN store' = DOMAIN store \cup {id}
                     /\ IsBodyWithId(store'[id], last'.req.body, id)
                     /\ \A k \in DOMAIN store : store'[k] = store[k]
              [] last'.req.method = "PUT" /\ last'.resp.status = 200 ->
                  /\ last'.req.id \in DOMAIN store
                  /\ DOMAIN store' = DOMAIN store
                  /\ IsBodyWithId(store'[last'.req.id], last'.req.body,
                                  last'.req.id)
                  /\ \A k \in DOMAIN store \ {last'.req.id} : store'[k] = store[k]
              [] last'.req.method = "DELETE" /\ last'.resp.status = 204 ->
                  /\ last'.req.id \in DOMAIN store
                  /\ DOMAIN store' = DOMAIN store \ {last'.req.id}
                  /\ \A k \in DOMAIN store' : store'[k] = store[k]
              [] OTHER -> store' = store
       /\ (\A p \in Procs : pc'[p] = "idle")
            => DOMAIN store' = Assigned(created') \ deleted'
       /\ (last'.req.method \in {"PUT", "DELETE"}
                /\ last'.req.id \notin DOMAIN store)
            => last'.resp.status \in {400, 404}]_vars

\* between requests: the first id was created and deleted, the second is there
C11_Witness ==
    /\ \A p \in Procs : pc[p] = "idle"
    /\ deleted = {"1"}
    /\ DOMAIN store = {"2"}
    /\ last.req.method = "GET"

\* C12: a store read is a copy or an immutable view: a Put or Delete never
\* changes the bytes a caller was handed, and no step other than a Put or
\* Delete on an id (in particular a caller writing into the bytes it got from
\* Get or passed to Put) changes what a Get on that id returns.
C12_ReadsAreCopies ==
    [][/\ memOp'.op \in {"Put", "Delete"} => \A a \in held : heap'[a] = heap[a]
       /\ \A id \in DOMAIN memData \cap DOMAIN memData' :
             (memOp'.op \notin {"Put", "Delete"} \/ memOp'.id # id)
                => heap'[memData'[id]] = heap[memData[id]]]_vars

\* the call of TransformBackendToFHIRPatient has returned
Transformed == tres.done
TransformedOk == tres.done /\ ~tres.err
\* the payload is a JSON object and m is its top-level mapping
IsObject(p) == p.syntax /\ p.top = "object"
\* the payload's resourceType is "Patient", compared case-insensitively
NamesPatient(p) ==
    IsObject(p) /\ EqualFoldPatient(Field(Unmarshal(p), "resourceType"))
\* what the call returns when M is the record the mapper reads
ResultFor(M) == [done |-> TRUE] @@ FromRecord(M, tin.pathID)
\* the value holds a record: a mapping, or a string that is the text of one
HoldsRecord(d) ==
    \/ d.t = "object"
    \/ d.t = "string" /\ d.text.syntax /\ d.text.top = "object"
RecordOf(d) == IF d.t = "object" THEN d.m ELSE Unmarshal(d.text)

\* C13: the mapper is bypassed exactly when the payload's resourceType is
\* "Patient" (case-insensitive): such a payload is returned byte for byte, for
\* every pathID, and transforming the result again returns it again; a payload
\* with any other resourceType is never returned as it came.
C13_BypassExactlyForPatients ==
    Transformed =>
        /\ NamesPatient(tin.payload) =>
              /\ ~tres.err
              /\ tres.out = tin.payload
              /\ TransformBackendToFHIRPatient(tres.out, tin.pathID).out = tres.out
        /\ (~NamesPatient(tin.payload) /\ ~tres.err) => tres.out # tin.payload

\* C14: when the payload has a `details` mapping and a `data` key holding a
\* record (as JSON text or as a mapping), the first match wins: the mapper
\* reads the `details` mapping and `data` is ignored.
C14_DetailsWinsOverData ==
    (Transformed /\ IsObject(tin.payload)) =>
        LET m == Unmarshal(tin.payload)
        IN ({"details", "data"} \subseteq DOMAIN m
                /\ m["details"].t = "object" /\ HoldsRecord(m["data"]))
              => tres = ResultFor(m["details"].m)

\* C15: for a payload of the shape {"details": M}, {"data": "<JSON text of M>"}
\* or {"data": M}, M a mapping, the record the mapper reads is exactly M: the
\* result is the one M gives and no sibling key of the envelope contributes.
C15_EnvelopeGivesInnerRecord ==
    (Transformed /\ IsObject(tin.payload)) =>
        LET m == Unmarshal(tin.payload)
        IN /\ ("details" \in DOMAIN m /\ "data" \notin DOMAIN m
                  /\ m["details"].t = "object")
                => tres = ResultFor(m["details"].m)
           /\ ("data" \in DOMAIN m /\ "details" \notin DOMAIN m
                  /\ HoldsRecord(m["data"]))
                => tres = ResultFor(RecordOf(m["data"]))

\* a record without a name came as JSON text in `data`, next to a sibling
\* firstName: the Patient has no name
C15_Witness ==
    /\ TransformedOk
    /\ tin.payload = DataText(RecContact)
    /\ "firstName" \in DOMAIN Unmarshal(tin.payload)
    /\ "name" \notin DOMAIN Unmarshal(tres.out)
    /\ "contact" \in DOMAIN Unmarshal(tres.out)

\* C16 as stated: unwrapping fails exactly when the top-level payload is
\* malformed JSON; every well-formed payload unwraps without error.
C16_UnwrapFailsOnlyOnMalformedJson ==
    Transformed => ((tres.err /\ tres.cause = "json") <=> ~tin.payload.syntax)

\* no envelope key of the top-level mapping m holds a record
NoEnvelope(m) ==
    /\ "details" \in DOMAIN m => m["details"].t # "object"
    /\ "data" \in DOMAIN m =>
          /\ m["data"].t # "object"
          /\ m["data"].t = "string" => UnmarshalFails(m["data"].text)

\* C16 amended: unwrapping fails exactly when the top-level payload does not
\* decode into a mapping (malformed JSON, or a well-formed text that is neither
\* an object nor null), and that is the only error it raises; a `data` string
\* that does not parse, a `details` value that is no mapping, or absent
\* envelope keys never cause an error: the top-level mapping is the record.
C16_UnwrapFailsOnlyOnNonObject ==
    Transformed =>
        /\ (tres.err /\ tres.cause = "json")
              <=> (~tin.payload.syntax \/ tin.payload.top \notin {"object", "null"})
        /\ (IsObject(tin.payload) /\ ~LooksLikePatient(tin.payload)
                /\ NoEnvelope(Unmarshal(tin.payload)))
              => tres = ResultFor(Unmarshal(tin.payload))

\* a payload whose `data` string is no JSON was transformed from its top level
C16_Witness ==
    /\ TransformedOk
    /\ tin.payload = DataNoJson(RecAnn)
    /\ Unmarshal(tres.out)["name"] = MapPatient(RecAnn, tin.pathID)["name"]

\* C17: the mapper never fails: for every record and every pathID, the empty
\* one included, mapping returns a Patient and no error.
C17_MapperNeverFails ==
    Transformed => tres.cause # "normalize"

\* C18: the id of the Patient a successful transformation returns is pathID,
\* whatever id-like fields the payload carries.
C18_IdIsPathID ==
    TransformedOk => Field(Unmarshal(tres.out), "id") = tin.pathID

\* no list inside the value is empty
RECURSIVE NoEmptyList(_)
NoEmptyList(v) ==
    CASE v.t = "array" ->
            /\ Len(v.xs) > 0
            /\ \A i \in 1..Len(v.xs) : NoEmptyList(v.xs[i])
      [] v.t = "object" -> \A k \in DOMAIN v.m : NoEmptyList(v.m[k])
      [] OTHER -> TRUE

\* C19: every Patient the transformation produces has resourceType "Patient",
\* and every collection in it has at least one element.
C19_PatientShape ==
    TransformedOk =>
        /\ Field(Unmarshal(tres.out), "resourceType") = "Patient"
        /\ NoEmptyList(O(Unmarshal(tres.out)))

\* the keys the mapper reads, and the strings that count as no value
MapperKeys ==
    {"area", "avatarBase64", "avatarUrl", "city", "contentType", "country",
     "createdOn", "dateOfBirth", "email", "emergencyContactEmail",
     "emergencyContactFirstName", "emergencyContactFirstNameLocal",
     "emergencyContactLastName", "emergencyContactLastNameLocal",
     "emergencyContactName", "emergencyContactPhoneNumber",
     "emergencyContactRelationship", "familyName", "fileStatus", "firstName",
     "fullName", "gender", "gender_text", "givenName", "hospitalId", "id",
     "idNumber", "idType", "imageBase64", "imageContentType", "imageData",
     "imageUrl", "isDeceased", "language", "lastName", "legacyMRN",
     "linkedParentUpi", "maritalStatus", "maritialStatus",
     "medicalRecordNumber", "middle", "middleName", "mobileNumber",
     "modifiedOn", "patientId", "patientNumber", "phoneNumber", "photo",
     "photoBase64", "photoContentType", "photoCreatedOn", "photoCreation",
     "photoTitle", "photoUrl", "pictureUrl", "primaryHealthcareCenter",
     "primaryHealthcarePhysician", "registeredAt", "street", "thirdName",
     "upi", "zipCode"}
AbsentStrings == {"-", "null", "", " ", "  "}
WithKey(rec, k, v) == (k :> v) @@ rec
WithoutKey(rec, k) == [x \in DOMAIN rec \ {k} |-> rec[x]]
\* ordered candidate lists of the mapper
CandidateLists ==
    {<<"firstName", "givenName">>, <<"lastName", "familyName">>,
     <<"upi", "patientId", "id">>,
     <<"legacyMRN", "medicalRecordNumber", "patientNumber">>,
     <<"mobileNumber", "phoneNumber">>, <<"gender_text", "gender">>}
\* the key holds a string with a value, or a number
Usable(rec, k) ==
    /\ k \in DOMAIN rec
    /\ \/ rec[k].t = "number"
       \/ rec[k].t = "string" /\ rec[k].s \notin AbsentStrings
Written(v) == IF v.t = "number" THEN FormatInt(v.n) ELSE v.s

\* C20: absent-value policy: giving a key the mapper reads the value "-",
\* "null" or a blank string produces the same Patient as removing the key, and
\* of an ordered list of candidate keys the first with a usable value wins
\* (no value when none has one).
C20_AbsentValuePolicy ==
    (Transformed /\ ~UnmarshalFails(tin.payload)) =>
        LET rec == Unwrap(Unmarshal(tin.payload))
        IN /\ \A k \in MapperKeys, v \in AbsentStrings :
                 MapPatient(WithKey(rec, k, S(v)), tin.pathID)
                    = MapPatient(WithoutKey(rec, k), tin.pathID)
           /\ \A c \in CandidateLists :
                 /\ (\A i \in 1..Len(c) : ~Usable(rec, c[i])) => str(rec, c) = ""
                 /\ \A i \in 1..Len(c) :
                       (Usable(rec, c[i]) /\ \A j \in 1..(i - 1) : ~Usable(rec, c[j]))
                          => str(rec, c) = Written(rec[c[i]])

\* a record whose first candidates are "-", blank and "null" was mapped: the
\* name comes from the later candidates
C20_Witness ==
    /\ TransformedOk
    /\ tin.payload = Marshal(RecFallback)
    /\ Unmarshal(tres.out)["name"]
          = L(<<O(("family" :> S("Lee")) @@ ("given" :> Strings(<<"Ann", "Bo">>)))>>)

\* normalizeDate has returned for the input nin.s
DateDone == nin.fn = "normalizeDate" /\ nout.done
\* the bytes hold a "T" or a space
HasSeparator(s) == \E i \in 1..Len(s) : s[i] \in {"T", " "}
\* the first n bytes, all of them when there are fewer
Prefix(s, n) == SubSeq(s, 1, IF Len(s) < n THEN Len(s) ELSE n)

GenderDone == nin.fn = "normalizeGender" /\ nout.done
\* the words normalizeGender knows, by the code they give
GenderWordsOf(code) ==
    CASE code = "male" -> {Bytes("m"), Bytes("male"), Bytes("1")}
      [] code = "female" -> {Bytes("f"), Bytes("female"), Bytes("2")}
      [] code = "other" -> {Bytes("other"), Bytes("o"), Bytes("3")}
      [] code = "unknown" -> {Bytes("unknown"), Bytes("u"), Bytes("0")}

\* C22: normalizeGender is total and its result is one of male, female, other,
\* unknown: after trimming and lower-casing, m/male/1 give male, f/female/2
\* give female, other/o/3 give other, unknown/u/0 give unknown; any other
\* string beginning with m gives male, beginning with f gives female, and
\* every remaining string gives unknown.
C22_GenderTotal ==
    GenderDone =>
        LET g == ToLowerBytes(TrimSpaceBytes(nin.s))
            known == UNION {GenderWordsOf(code) : code \in GenderCodes}
        IN /\ nout.out \in GenderCodes
           /\ \A code \in GenderCodes : g \in GenderWordsOf(code) => nout.out = code
           /\ (g \notin known /\ g # <<>> /\ g[1] = "m") => nout.out = "male"
           /\ (g \notin known /\ g # <<>> /\ g[1] = "f") => nout.out = "female"
           /\ (g \notin known /\ (g = <<>> \/ g[1] \notin {"m", "f"}))
                 => nout.out = "unknown"

\* a padded, capitalised word that is no known code and begins with m
C22_Witness ==
    /\ GenderDone
    /\ nin.s = <<" ", "M", "x">>
    /\ nout.out = "male"

\* a GET by id of the api package was answered
GotById == last.req.method = "GET" /\ build = "backend"

\* C23: for GET /fhir/Patient/{id} with a well-formed id the response is 200
\* with the canonical Patient when the backend fetch, the transformation and
\* the validation all succeed, 404 when the backend answers 404, and 502 on a
\* transport, transformation or validation failure; no other status is
\* produced.
C23_GetByIdStatus ==
    GotById =>
        LET a == last.req.answer
            fetched == ~a.err /\ a.status >= 200 /\ a.status < 300
            t == TransformBackendToFHIRPatient(a.body, last.req.id)
            ok == fetched /\ ~t.err /\ ValidatePatientR4(t.out)
        IN /\ last.resp.status \in {200, 404, 502}
           /\ ok => (last.resp.status = 200 /\ last.resp.body = t.out)
           /\ (~a.err /\ a.status = 404) => last.resp.status = 404
           /\ (a.err \/ (fetched /\ ~ok)) => last.resp.status = 502

\* a request was answered, with a body
Answered == last # NoExchange
HasBody == last.resp.status # 204

\* C25: every response has media type application/fhir+json, and every failure
\* response (4xx or 5xx, any route, any method) has an OperationOutcome body
\* with at least one issue carrying a severity and a code.
C25_FhirJsonAndOutcome ==
    (Answered /\ HasBody) =>
        /\ last.resp.ctype = FhirJson
        /\ last.resp.status >= 400 =>
              /\ last.resp.kind = "OperationOutcome"
              /\ Len(last.resp.issues) >= 1
              /\ \A i \in 1..Len(last.resp.issues) :
                    /\ last.resp.issues[i].severity \in Severities
                    /\ last.resp.issues[i].code # ""

\* C26: a POST or PUT whose body is longer than the 2 MiB ceiling is rejected:
\* it is never answered 2xx and no step of it changes the store, whatever its
\* first 2 MiB hold.
C26_OversizedRejected ==
    [][/\ (last'.req.method \in {"POST", "PUT"} /\ last'.req.over)
            => (last'.resp.status < 200 \/ last'.resp.status >= 300)
       /\ \A p \in Procs :
             (req[p].over /\ pc'[p] # pc[p]) => store' = store]_vars

\* C27: the JSON stored under key K has the id K: POST stores the resource
\* under the id it injected and names that id in the Location header, and PUT
\* overwrites the body's id with the path id, whatever id the body carried.
C27_StoredIdIsKey ==
    /\ \A k \in DOMAIN store :
          /\ store[k].syntax
          /\ Unmarshal(store[k])["id"] = S(k)
    /\ (last.req.method = "POST" /\ last.resp.status = 201) =>
          \E k \in DOMAIN store :
             /\ last.resp.location = "/fhir/Patient/" \o k
             /\ last.resp.body = store[k]
             /\ IsBodyWithId(store[k], last.req.body, k)
    /\ (last.req.method = "PUT" /\ last.resp.status = 200) =>
          /\ last.req.id \in DOMAIN store
          /\ last.resp.body = store[last.req.id]
          /\ IsBodyWithId(last.resp.body, last.req.body, last.req.id)

\* a PUT whose body carried another id was stored under the path id
C27_Witness ==
    /\ last.req.method = "PUT"
    /\ last.resp.status = 200
    /\ Field(Unmarshal(last.req.body), "id") = "client-id"
    /\ Field(Unmarshal(store[last.req.id]), "id") = last.req.id

\* the response rejects a write
IsWrite(x) == x.req.method \in {"POST", "PUT"}
RejectedWrite(x) == IsWrite(x) /\ x.resp.status \notin {200, 201}

\* C28: a rejected write leaves the shared state untouched: the step that
\* answers a POST or PUT with any status other than 201/200 changes neither the
\* store nor the counter, no earlier step of such a request did (the store
\* changes only in a step that answers 201, 200 or 204, and an id is taken
\* only by a POST that goes on to answer 201).
C28_RejectedWriteLeavesState ==
    [][/\ RejectedWrite(last') => (store' = store /\ nextID' = nextID)
       /\ store' # store => last'.resp.status \in {200, 201, 204}
       /\ nextID' # nextID =>
             \E p \in Procs : pc[p] = "idle" /\ pc'[p] = "post_lock"
       /\ \A p \in Procs :
             /\ (pc[p] = "post_lock" /\ pc'[p] # pc[p]) => pc'[p] = "post_cs"
             /\ (pc[p] = "post_cs" /\ pc'[p] # pc[p]) => last'.resp.status = 201]_vars

\* a POST was rejected after an earlier one had taken id 1; the counter and
\* the entry are as they were
C28_Witness ==
    /\ RejectedWrite(last)
    /\ last.req.method = "POST"
    /\ nextID = 1
    /\ DOMAIN store = {"1"}

\* C29: assigned ids are never reused: the counter only increases, the ids
\* handed out are the decimal strings 1, 2, 3, ... in this order, each once,
\* and an id that was deleted is never assigned again.
C29_IdsNeverReused ==
    [][/\ nextID' >= nextID
       /\ created' = [i \in 1..Len(created') |-> FormatInt(i)]
       /\ \A i, j \in 1..Len(created') : i # j => created'[i] # created'[j]
       /\ created' # created =>
             /\ Len(created') = Len(created) + 1
             /\ SubSeq(created', 1, Len(created)) = created
             /\ created'[Len(created')] \notin Assigned(created) \cup deleted
                                                 \cup DOMAIN store]_vars

\* id 1 was deleted and the next POST got id 2
C29_Witness ==
    /\ deleted = {"1"}
    /\ created = <<"1", "2">>
    /\ DOMAIN store = {"2"}
    /\ \E p \in Procs : pc[p] = "idle" /\ last.req.method = "POST"

\* the search handler answered
SearchDone == sout # NoResponse
\* a GET search whose backend call returned 2xx with a decodable envelope
ListedSearch ==
    /\ SearchDone
    /\ sin.method = "GET"
    /\ sin.variant = "api" => TrimSpace(sin.firstName) # ""
    /\ ~sin.answer.err
    /\ sin.answer.status >= 200 /\ sin.answer.status < 300
    /\ ~UnmarshalFails(sin.answer.body)
\* the backend's list: the `data` array for the api package, the first of
\* data.rows, data.list, data, rows, list for the handlers package
ListedItems ==
    LET m == Unmarshal(sin.answer.body)
    IN IF sin.variant = "api"
       THEN (IF HasList(m, "data") THEN m["data"].xs ELSE <<>>)
       ELSE extractItems(m)
\* the record an element of the list carries and the id it is transformed with
SearchRecord(it) ==
    IF sin.variant = "api" THEN recBytes(it) @@ [pid |-> ""]
    ELSE [some |-> TRUE, bytes |-> MarshalValue(it), pid |-> itemPid(it)]
SearchResult(it) ==
    TransformBackendToFHIRPatient(SearchRecord(it).bytes, SearchRecord(it).pid)
Passes(it) ==
    /\ SearchRecord(it).some
    /\ ~SearchResult(it).err
    /\ ValidatePatientR4(SearchResult(it).out)
EntriesOf(r) == Unmarshal(r.body)["entry"].xs

\* C24: a GET search whose backend call returns 2xx with a list of records is
\* answered 200 with a searchset Bundle whose entries are exactly the records
\* that transform and validate, in backend order, each with search.mode
\* "match"; a record that fails is dropped: it changes neither the status nor
\* the issues nor any other record's entry.
C24_FailedRecordsDropped ==
    ListedSearch =>
        LET kept == SelectSeq(ListedItems, LAMBDA it : Passes(it))
            b == Unmarshal(sout.body)
        IN /\ sout.status = 200
           /\ sout.ctype = FhirJson
           /\ sout.issues = NoIssues
           /\ Field(b, "resourceType") = "Bundle"
           /\ Field(b, "type") = "searchset"
           /\ Len(EntriesOf(sout)) = Len(kept)
           /\ \A i \in 1..Len(kept) :
                 /\ EntriesOf(sout)[i].m["resource"]
                       = O(Unmarshal(SearchResult(kept[i]).out))
                 /\ EntriesOf(sout)[i].m["search"] = O("mode" :> S("match"))

\* a page whose first record passes and whose second fails was answered with
\* the entry of the first
C24_Witness ==
    /\ ListedSearch
    /\ Len(ListedItems) = 2
    /\ Passes(ListedItems[1])
    /\ SearchRecord(ListedItems[2]).some
    /\ ~Passes(ListedItems[2])
    /\ Len(EntriesOf(sout)) = 1

\* C30: in every searchset Bundle the total equals the number of entries,
\* also when records were dropped.
C30_TotalIsEntryCount ==
    (SearchDone /\ sout.kind = "Bundle") =>
        Unmarshal(sout.body)["total"] = N(Len(EntriesOf(sout)))

=============================================================================
